---- MODULE Spec2Model ----
(***************************************************************************)
(* pylendar: a Python implementation of the BSD calendar(1) utility.       *)
(*                                                                         *)
(* The module models src/src/pylendar/pylendar.py:                         *)
(*   - the civil calendar arithmetic the program gets from datetime.date,  *)
(*     datetime.timedelta and calendar.monthrange;                         *)
(*   - the DateExpr variants and their resolve() methods;                  *)
(*   - DateStringParser, parse_special_dates, get_matching_event;          *)
(*   - the window policy (bsd_to_python_weekday, get_ahead_behind,         *)
(*     get_dates_to_check) and the cli() pipeline.                         *)
(*                                                                         *)
(* Strings are sequences of one-character strings.  A Python exception is  *)
(* a value: every operator that can raise returns a record with an exc     *)
(* field ("none" when it returned normally).                               *)
(***************************************************************************)
EXTENDS Integers, Sequences, FiniteSets, TLC

VARIABLES
    pc,               \* position of the run
    today,            \* args.today
    argA,             \* args.A : {} is None, {n} is n
    argW,             \* args.W : {} is None, {n} is n
    argB,             \* args.B
    argF,             \* args.F (BSD day numbering)
    argw,             \* args.w : print the weekday name
    file_lines,       \* what SimpleCPP.process_file returned
    calendar_lines,   \* after join_continuation_lines
    friday,           \* cli local: Python weekday that triggers 3 days
    ahead,            \* cli local
    behind,           \* cli local
    dates_to_check,   \* cli local: the window
    date_exprs,       \* the Anchor Table (DateStringParser.date_exprs)
    idx,              \* next line of calendar_lines to match
    last,             \* outcome of the latest get_matching_event call
    matching_events,  \* cli local: list of Events
    printed,          \* the lines written to stdout
    expr,             \* resolve harness: the DateExpr
    year,             \* resolve harness: the year argument
    resolved,         \* resolve harness: what expr.resolve(year) gave
    field,            \* parse harness: the date field handed to parse
    parsed,           \* parse harness: what parser.parse(date_str) gave
    clock,            \* -t harness: datetime.date.today()
    t_arg,            \* -t harness: the argument of -t
    t_date,           \* -t harness: what parse_today_arg gave
    files,            \* include harness: the text files, by path
    include_dirs,     \* SimpleCPP.include_dirs
    included_files,   \* SimpleCPP.included_files
    returned,         \* include harness: what the latest process_file returned
    output            \* include harness: everything returned so far

cliVars == <<today, argA, argW, argB, argF, argw, file_lines, calendar_lines,
             friday, ahead, behind, dates_to_check, date_exprs, idx, last,
             matching_events, printed>>
resolveVars == <<expr, year, resolved>>
parseVars == <<field, parsed>>
todayVars == <<clock, t_arg, t_date>>
cppVars == <<files, include_dirs, included_files, returned, output>>
vars == <<pc, today, argA, argW, argB, argF, argw, file_lines, calendar_lines,
          friday, ahead, behind, dates_to_check, date_exprs, idx, last,
          matching_events, printed, expr, year, resolved, field, parsed,
          clock, t_arg, t_date, files, include_dirs, included_files, returned,
          output>>

(***************************************************************************)
(* Bounds of the model.                                                    *)
(***************************************************************************)
MinYear == 2025
MaxYear == 2028
MaxN == 6
MaxOffset == 46
MaxAhead == 3
MaxBehind == 2
MaxAliasLines == 2
MaxCalls == 2

(***************************************************************************)
(* Optional values: None is the empty set, a value v is {v}.               *)
(***************************************************************************)
None == {}
Some(v) == {v}
The(s) == CHOOSE v \in s : TRUE

(***************************************************************************)
(* datetime.date, as the program uses it.                                  *)
(***************************************************************************)
Date(y, m, d) == [year |-> y, month |-> m, day |-> d]
NoDate == [year |-> 0, month |-> 0, day |-> 0]

IsLeap(y) == y % 4 = 0 /\ (y % 100 # 0 \/ y % 400 = 0)

DaysInMonth(y, m) ==
    IF m = 2 THEN (IF IsLeap(y) THEN 29 ELSE 28)
    ELSE IF m \in {4, 6, 9, 11} THEN 30 ELSE 31

\* datetime.date(y, m, d) raises ValueError unless this holds
ValidDate(y, m, d) ==
    /\ y >= 1 /\ y <= 9999
    /\ m >= 1 /\ m <= 12
    /\ d >= 1 /\ d <= DaysInMonth(y, m)

DaysBeforeYear(y) ==
    LET p == y - 1 IN p * 365 + (p \div 4) - (p \div 100) + (p \div 400)

DaysBeforeMonthTable == <<0, 31, 59, 90, 120, 151, 181, 212, 243, 273, 304, 334>>

DaysBeforeMonth(y, m) ==
    DaysBeforeMonthTable[m] + (IF m > 2 /\ IsLeap(y) THEN 1 ELSE 0)

\* date.toordinal(): 0001-01-01 is day 1
toordinal(dt) == DaysBeforeYear(dt.year) + DaysBeforeMonth(dt.year, dt.month) + dt.day

\* date.fromordinal(n), by the 400/100/4/1-year cycle decomposition
fromordinal(n) ==
    LET n0   == n - 1
        n400 == n0 \div 146097
        r400 == n0 % 146097
        n100 == r400 \div 36524
        r100 == r400 % 36524
        n4   == r100 \div 1461
        r4   == r100 % 1461
        n1   == r4 \div 365
        r1   == r4 % 365
        y    == n400 * 400 + 1 + n100 * 100 + n4 * 4 + n1
    IN  IF n1 = 4 \/ n100 = 4
        THEN Date(y - 1, 12, 31)
        ELSE LET m == CHOOSE k \in 1..12 :
                          /\ DaysBeforeMonth(y, k) <= r1
                          /\ r1 < DaysBeforeMonth(y, k) + DaysInMonth(y, k)
             IN  Date(y, m, r1 - DaysBeforeMonth(y, m) + 1)

\* date.weekday(): Monday is 0
weekday(dt) == (toordinal(dt) + 6) % 7

\* date comparison (year, month, day lexicographic)
DateLt(a, b) ==
    \/ a.year < b.year
    \/ a.year = b.year /\ a.month < b.month
    \/ a.year = b.year /\ a.month = b.month /\ a.day < b.day

\* min() of a non-empty set of dates
MinDate(S) == CHOOSE d \in S : \A e \in S : e = d \/ DateLt(d, e)

\* datetime.timedelta(days=k) raises OverflowError beyond this magnitude
TimedeltaOk(k) == k <= 999999999 /\ k >= -999999999

\* datetime.timedelta(weeks=w): the day count, exc "OverflowError" if too big
TimedeltaWeeks(w) ==
    IF w > 999999999 \div 7 \/ w < -(999999999 \div 7)
    THEN [exc |-> "OverflowError", days |-> 0]
    ELSE [exc |-> "none", days |-> 7 * w]

\* date + timedelta(days=k), k already a valid timedelta
DatePlus(dt, k) ==
    LET o == toordinal(dt) + k
    IN  IF o >= 1 /\ o <= 3652059
        THEN [exc |-> "none", date |-> fromordinal(o)]
        ELSE [exc |-> "OverflowError", date |-> NoDate]

(***************************************************************************)
(* The DateExpr variants.  resolve returns [exc, dates].                   *)
(***************************************************************************)
FixedDate(m, d) == [kind |-> "FixedDate", month |-> m, day |-> d]
FullDate(y, m, d) == [kind |-> "FullDate", year |-> y, month |-> m, day |-> d]
WildcardDay(d) == [kind |-> "WildcardDay", day |-> d]
SpecialDate(dt) == [kind |-> "SpecialDate", date |-> dt]
RecurringDate(ds) == [kind |-> "RecurringDate", dates |-> ds]
NthWeekdayOfMonth(m, w, n) ==
    [kind |-> "NthWeekdayOfMonth", month |-> m, weekday |-> w, n |-> n]
NthWeekdayEveryMonth(w, n) ==
    [kind |-> "NthWeekdayEveryMonth", weekday |-> w, n |-> n]
OffsetDateExpr(b, o) == [kind |-> "OffsetDateExpr", base |-> b, offset |-> o]
EveryWeekday(w) == [kind |-> "EveryWeekday", weekday |-> w]

Ret(S) == [exc |-> "none", dates |-> S]
Exc(e) == [exc |-> e, dates |-> {}]

FixedDate_resolve(e, y) ==
    IF ValidDate(y, e.month, e.day) THEN Ret({Date(y, e.month, e.day)}) ELSE Ret({})

\* the month and day of the full date taken in the query year
FullDate_resolve_QueryYear(e, y) ==
    IF ValidDate(y, e.month, e.day)
    THEN Ret({Date(y, e.month, e.day)}) ELSE Ret({})

FullDate_resolve(e, y) ==
    IF ValidDate(e.year, e.month, e.day)
    THEN Ret({Date(e.year, e.month, e.day)}) ELSE Ret({})

\* the day taken in the months that have 31 days only
WildcardDay_resolve_LongMonths(e, y) ==
    Ret({Date(y, m, e.day) : m \in {k \in {1, 3, 5, 7, 8, 10, 12} : ValidDate(y, k, e.day)}})

WildcardDay_resolve(e, y) ==
    Ret({Date(y, m, e.day) : m \in {k \in 1..12 : ValidDate(y, k, e.day)}})

SpecialDate_resolve(e, y) == Ret({e.date})

RecurringDate_resolve(e, y) == Ret(e.dates)

\* _find_nth_weekday: [exc, date]; date = NoDate is Python's None
\* "occurrence + datetime.timedelta(weeks=...)", either operand may have raised
AddWeeks(occurrence, delta) ==
    IF occurrence.exc # "none" THEN occurrence
    ELSE IF delta.exc # "none" THEN [exc |-> delta.exc, date |-> NoDate]
    ELSE DatePlus(occurrence.date, delta.days)

\* the n > 0 branch with the week count not reduced by one
FindFromStart_WeeksN(y, month, wd, n) ==
    IF ~ValidDate(y, month, 1) THEN [exc |-> "ValueError", date |-> NoDate]
    ELSE LET first_day  == Date(y, month, 1)
             days_ahead == (wd - weekday(first_day)) % 7
         IN  AddWeeks(DatePlus(first_day, days_ahead), TimedeltaWeeks(n))

\* the n > 0 branch
FindFromStart(y, month, wd, n) ==
    IF ~ValidDate(y, month, 1) THEN [exc |-> "ValueError", date |-> NoDate]
    ELSE LET first_day  == Date(y, month, 1)
             days_ahead == (wd - weekday(first_day)) % 7
         IN  AddWeeks(DatePlus(first_day, days_ahead), TimedeltaWeeks(n - 1))

\* the n <= 0 branch with the weekday difference taken the wrong way round
FindFromEnd_DaysBackReversed(y, month, wd, n) ==
    IF ~(month >= 1 /\ month <= 12) \/ ~ValidDate(y, 1, 1)
    THEN [exc |-> "ValueError", date |-> NoDate]
    ELSE LET last_day_num == DaysInMonth(y, month)
             last_day  == Date(y, month, last_day_num)
             days_back == (wd - weekday(last_day)) % 7
         IN  AddWeeks(DatePlus(last_day, -days_back), TimedeltaWeeks(n + 1))

\* the n <= 0 branch
FindFromEnd(y, month, wd, n) ==
    IF ~(month >= 1 /\ month <= 12) \/ ~ValidDate(y, 1, 1)
    THEN [exc |-> "ValueError", date |-> NoDate]
    ELSE LET last_day_num == DaysInMonth(y, month)
             last_day  == Date(y, month, last_day_num)
             days_back == (weekday(last_day) - wd) % 7
         IN  AddWeeks(DatePlus(last_day, -days_back), TimedeltaWeeks(n + 1))

\* "return target if target.month == month else None"
MonthTest(target, month) ==
    IF target.exc # "none" THEN target
    ELSE IF target.date.month = month THEN target
    ELSE [exc |-> "none", date |-> NoDate]

\* _find_nth_weekday without the final "target.month == month" test
find_nth_weekday_NoMonthTest(y, month, wd, n) ==
    IF n > 0 THEN FindFromStart(y, month, wd, n) ELSE FindFromEnd(y, month, wd, n)

find_nth_weekday(y, month, wd, n) ==
    MonthTest(IF n > 0 THEN FindFromStart(y, month, wd, n)
                       ELSE FindFromEnd(y, month, wd, n),
              month)

\* "return {result} if result else set()"
SetOfResult(result) ==
    IF result.exc # "none" THEN Exc(result.exc)
    ELSE IF result.date # NoDate THEN Ret({result.date}) ELSE Ret({})

NthWeekdayOfMonth_resolve(e, y) ==
    SetOfResult(find_nth_weekday(y, e.month, e.weekday, e.n))

\* the set comprehension over the months, r[m] the result for month m: the
\* first month that raises ends it
SetOfMonths(r) ==
    IF \E m \in 1..12 : r[m].exc # "none"
    THEN Exc(r[CHOOSE m \in 1..12 :
                 /\ r[m].exc # "none"
                 /\ \A k \in 1..(m - 1) : r[k].exc = "none"].exc)
    ELSE Ret({r[m].date : m \in {k \in 1..12 : r[k].date # NoDate}})

NthWeekdayEveryMonth_resolve(e, y) ==
    SetOfMonths([m \in 1..12 |-> find_nth_weekday(y, m, e.weekday, e.n)])

\* the weekdays of the year counted from the first full week
EveryWeekday_resolve_FromSecond(e, y) ==
    IF ~ValidDate(y, 1, 1) THEN Exc("ValueError")
    ELSE LET jan1 == Date(y, 1, 1)
             days_ahead == (e.weekday - weekday(jan1)) % 7
             first == toordinal(jan1) + days_ahead
         IN  Ret({fromordinal(first + 7 * k) :
                    k \in {j \in 1..53 : fromordinal(first + 7 * j).year = y}})

EveryWeekday_resolve(e, y) ==
    IF ~ValidDate(y, 1, 1) THEN Exc("ValueError")
    ELSE LET jan1 == Date(y, 1, 1)
             days_ahead == (e.weekday - weekday(jan1)) % 7
             first == toordinal(jan1) + days_ahead
         IN  Ret({fromordinal(first + 7 * k) :
                    k \in {j \in 0..53 : fromordinal(first + 7 * j).year = y}})

\* the shift with the sign of the offset lost
ShiftAll_Back(base_dates, offset) ==
    IF ~TimedeltaOk(offset) THEN Exc("OverflowError")
    ELSE IF \E d \in base_dates : DatePlus(d, -offset).exc # "none"
    THEN Exc("OverflowError")
    ELSE Ret({DatePlus(d, -offset).date : d \in base_dates})

\* {d + delta for d in base_dates}
ShiftAll(base_dates, offset) ==
    IF ~TimedeltaOk(offset) THEN Exc("OverflowError")
    ELSE IF \E d \in base_dates : DatePlus(d, offset).exc # "none"
    THEN Exc("OverflowError")
    ELSE Ret({DatePlus(d, offset).date : d \in base_dates})

\* the shift of what the base resolved to, unless the base raised
ShiftResult(b, offset) == IF b.exc # "none" THEN b ELSE ShiftAll(b.dates, offset)

RECURSIVE resolve(_, _)
OffsetDateExpr_resolve(e, y) ==
    IF ~TimedeltaOk(e.offset) THEN Exc("OverflowError")
    ELSE ShiftResult(resolve(e.base, y), e.offset)

resolve(e, y) ==
    CASE e.kind = "FixedDate"            -> FixedDate_resolve(e, y)
      [] e.kind = "FullDate"             -> FullDate_resolve(e, y)
      [] e.kind = "WildcardDay"          -> WildcardDay_resolve(e, y)
      [] e.kind = "SpecialDate"          -> SpecialDate_resolve(e, y)
      [] e.kind = "RecurringDate"        -> RecurringDate_resolve(e, y)
      [] e.kind = "NthWeekdayOfMonth"    -> NthWeekdayOfMonth_resolve(e, y)
      [] e.kind = "NthWeekdayEveryMonth" -> NthWeekdayEveryMonth_resolve(e, y)
      [] e.kind = "OffsetDateExpr"       -> OffsetDateExpr_resolve(e, y)
      [] e.kind = "EveryWeekday"         -> EveryWeekday_resolve(e, y)

\* variable as a class attribute of OffsetDateExpr, not delegated to the base
variable_OffsetFixed(e) ==
    e.kind \notin {"FixedDate", "FullDate", "WildcardDay", "OffsetDateExpr"}

RECURSIVE variable(_)
\* DateExpr.variable: class attribute, delegated by OffsetDateExpr
variable(e) ==
    IF e.kind \in {"FixedDate", "FullDate", "WildcardDay"} THEN FALSE
    ELSE IF e.kind = "OffsetDateExpr" THEN variable(e.base)
    ELSE TRUE

(***************************************************************************)
(* Strings: sequences of one-character strings.                            *)
(***************************************************************************)
Chars(s) == [i \in 1..Len(s) |-> SubSeq(s, i, i)]

DigitChars == Chars("0123456789")
LowerChars == Chars("abcdefghijklmnopqrstuvwxyz")
UpperChars == Chars("ABCDEFGHIJKLMNOPQRSTUVWXYZ")

IsDigit(c) == \E i \in 1..10 : DigitChars[i] = c
IsAlpha(c) == \E i \in 1..26 : LowerChars[i] = c
IsSpace(c) == c \in {" ", "\t", "\n", "\r", "\f"}
DigitVal(c) == (CHOOSE i \in 1..10 : DigitChars[i] = c) - 1

\* str.lower()
lower(s) ==
    [i \in 1..Len(s) |->
        IF \E k \in 1..26 : UpperChars[k] = s[i]
        THEN LowerChars[CHOOSE k \in 1..26 : UpperChars[k] = s[i]]
        ELSE s[i]]

\* str.rstrip(), str.lstrip(), str.strip()
rstrip(s) ==
    LET keep == {i \in 1..Len(s) : ~IsSpace(s[i])}
    IN  IF keep = {} THEN <<>>
        ELSE SubSeq(s, 1, CHOOSE i \in keep : \A k \in keep : k <= i)

lstrip(s) ==
    LET keep == {i \in 1..Len(s) : ~IsSpace(s[i])}
    IN  IF keep = {} THEN <<>>
        ELSE SubSeq(s, CHOOSE i \in keep : \A k \in keep : k >= i, Len(s))

strip(s) == lstrip(rstrip(s))

\* c in s
Contains(s, c) == \E i \in 1..Len(s) : s[i] = c

\* s.split(c, 1) for a string that contains c: <<before, after>>
SplitFirst(s, c) ==
    LET p == CHOOSE i \in 1..Len(s) : s[i] = c /\ \A k \in 1..(i - 1) : s[k] # c
    IN  <<SubSeq(s, 1, p - 1), SubSeq(s, p + 1, Len(s))>>

\* int() of a string of decimal digits
RECURSIVE DigitsToInt(_)
DigitsToInt(s) ==
    IF Len(s) = 0 THEN 0
    ELSE DigitsToInt(SubSeq(s, 1, Len(s) - 1)) * 10 + DigitVal(s[Len(s)])

\* str() of an integer
RECURSIVE NatToStr(_)
NatToStr(n) ==
    IF n < 10 THEN <<DigitChars[n + 1]>>
    ELSE NatToStr(n \div 10) \o <<DigitChars[(n % 10) + 1]>>

IntToStr(n) == IF n < 0 THEN <<"-">> \o NatToStr(-n) ELSE NatToStr(n)

\* The regular expressions of the parser are built from [a-z]+, \d+, \s+ and
\* single punctuation characters, so a full match is decided by the sequence
\* of maximal runs of the string: "a" letters, "d" digits, "s" whitespace,
\* any other character is a run of its own, named by the character.
CharClass(c) ==
    IF IsDigit(c) THEN "d" ELSE IF IsAlpha(c) THEN "a"
    ELSE IF IsSpace(c) THEN "s" ELSE c

RunLength(s) ==
    IF CharClass(s[1]) \notin {"a", "d", "s"} THEN 1
    ELSE CHOOSE n \in 1..Len(s) :
            /\ \A i \in 1..n : CharClass(s[i]) = CharClass(s[1])
            /\ n = Len(s) \/ CharClass(s[n + 1]) # CharClass(s[1])

RECURSIVE Tokens(_)
Tokens(s) ==
    IF Len(s) = 0 THEN <<>>
    ELSE LET n == RunLength(s)
         IN  <<[cls |-> CharClass(s[1]), text |-> SubSeq(s, 1, n)]>>
                 \o Tokens(SubSeq(s, n + 1, Len(s)))

Shape(T) == [i \in 1..Len(T) |-> T[i].cls]

IsSign(c) == c \in {"+", "-"}
SignOf(c) == IF c = "+" THEN 1 ELSE -1

(***************************************************************************)
(* DateStringParser.  An optional DateExpr is None or Some(expr).          *)
(***************************************************************************)
ORDINAL_WORDS == <<"first", "second", "third", "fourth", "fifth", "last">>
ORDINAL_VALUES == <<1, 2, 3, 4, 5, -1>>

\* ORDINAL_MAP as a function on the words
ORDINAL_MAP ==
    [k \in {Chars(ORDINAL_WORDS[i]) : i \in 1..6} |->
        ORDINAL_VALUES[CHOOSE i \in 1..6 : Chars(ORDINAL_WORDS[i]) = k]]

MonthNames == <<"january", "february", "march", "april", "may", "june", "july",
                "august", "september", "october", "november", "december">>
MonthAbbrs == <<"jan", "feb", "mar", "apr", "may", "jun", "jul", "aug", "sep",
                "oct", "nov", "dec">>
DayNames == <<"monday", "tuesday", "wednesday", "thursday", "friday",
              "saturday", "sunday">>
DayAbbrs == <<"mon", "tue", "wed", "thu", "fri", "sat", "sun">>

\* build_month_map() in the C locale: names and abbreviations, 1..12
month_map ==
    [k \in {Chars(MonthNames[i]) : i \in 1..12} \cup {Chars(MonthAbbrs[i]) : i \in 1..12} |->
        CHOOSE i \in 1..12 : Chars(MonthNames[i]) = k \/ Chars(MonthAbbrs[i]) = k]

\* build_weekday_map() in the C locale: names and abbreviations, Monday = 0
weekday_map ==
    [k \in {Chars(DayNames[i]) : i \in 1..7} \cup {Chars(DayAbbrs[i]) : i \in 1..7} |->
        (CHOOSE i \in 1..7 : Chars(DayNames[i]) = k \/ Chars(DayAbbrs[i]) = k) - 1]

\* a or b, on optional values
OrElse(a, b) == IF a # None THEN a ELSE b

\* ([a-z]+)(first|second|third|fourth|fifth|last) on a run of letters:
\* None, or Some(<<weekday name, ordinal word>>)
SplitOrdinal(word) ==
    LET cuts == {p \in 1..(Len(word) - 1) :
                    SubSeq(word, p + 1, Len(word)) \in DOMAIN ORDINAL_MAP}
    IN  IF cuts = {} THEN None
        ELSE LET p == CHOOSE q \in cuts : TRUE
             IN  Some(<<SubSeq(word, 1, p), SubSeq(word, p + 1, Len(word))>>)

\* YYYY/M/D or YYYY-MM-DD
parse_full_date(T) ==
    IF /\ Len(T) = 5
       /\ T[1].cls = "d" /\ Len(T[1].text) = 4
       /\ T[2].cls \in {"/", "-"}
       /\ T[3].cls = "d" /\ Len(T[3].text) <= 2
       /\ T[4].cls \in {"/", "-"}
       /\ T[5].cls = "d" /\ Len(T[5].text) <= 2
    THEN Some(FullDate(DigitsToInt(T[1].text), DigitsToInt(T[3].text),
                       DigitsToInt(T[5].text)))
    ELSE None

\* MM/Weekday+N read as N days after the first such weekday
parse_mm_wkday_offset_AsDays(T) ==
    IF /\ Len(T) = 5
       /\ T[1].cls = "d" /\ Len(T[1].text) <= 2
       /\ T[2].cls = "/"
       /\ T[3].cls = "a"
       /\ IsSign(T[4].cls)
       /\ T[5].cls = "d"
       /\ T[3].text \in DOMAIN weekday_map
    THEN Some(OffsetDateExpr(
                 NthWeekdayOfMonth(DigitsToInt(T[1].text), weekday_map[T[3].text], 1),
                 SignOf(T[4].cls) * DigitsToInt(T[5].text)))
    ELSE None

\* MM/Weekday+N, MM/Weekday-N
parse_mm_wkday_offset(T) ==
    IF /\ Len(T) = 5
       /\ T[1].cls = "d" /\ Len(T[1].text) <= 2
       /\ T[2].cls = "/"
       /\ T[3].cls = "a"
       /\ IsSign(T[4].cls)
       /\ T[5].cls = "d"
       /\ T[3].text \in DOMAIN weekday_map
    THEN Some(NthWeekdayOfMonth(DigitsToInt(T[1].text), weekday_map[T[3].text],
                                SignOf(T[4].cls) * DigitsToInt(T[5].text)))
    ELSE None

\* MM/WkdayOrdinal[+-N], Month/WkdayOrdinal[+-N]
parse_ordinal_weekday(T) ==
    IF /\ Len(T) \in {3, 5}
       /\ T[1].cls = "d" => Len(T[1].text) <= 2
       /\ T[1].cls \in {"d", "a"}
       /\ T[2].cls = "/"
       /\ T[3].cls = "a"
       /\ SplitOrdinal(T[3].text) # None
       /\ Len(T) = 5 => (IsSign(T[4].cls) /\ T[5].cls = "d")
       /\ T[1].cls = "a" => T[1].text \in DOMAIN month_map
       /\ The(SplitOrdinal(T[3].text))[1] \in DOMAIN weekday_map
    THEN LET wo    == The(SplitOrdinal(T[3].text))
             month == IF T[1].cls = "d" THEN DigitsToInt(T[1].text)
                                        ELSE month_map[T[1].text]
             base  == NthWeekdayOfMonth(month, weekday_map[wo[1]], ORDINAL_MAP[wo[2]])
         IN  IF Len(T) = 5
             THEN Some(OffsetDateExpr(base, SignOf(T[4].cls) * DigitsToInt(T[5].text)))
             ELSE Some(base)
    ELSE None

\* Month/DD
parse_month_slash_dd(T) ==
    IF /\ Len(T) = 3
       /\ T[1].cls = "a" /\ T[2].cls = "/"
       /\ T[3].cls = "d" /\ Len(T[3].text) <= 2
       /\ T[1].text \in DOMAIN month_map
    THEN Some(FixedDate(month_map[T[1].text], DigitsToInt(T[3].text)))
    ELSE None

\* MM/DD
parse_mm_dd(T) ==
    IF /\ Len(T) = 3
       /\ T[1].cls = "d" /\ Len(T[1].text) <= 2
       /\ T[2].cls = "/"
       /\ T[3].cls = "d" /\ Len(T[3].text) <= 2
    THEN Some(FixedDate(DigitsToInt(T[1].text), DigitsToInt(T[3].text)))
    ELSE None

\* Month Weekday+N, Month Weekday-N
parse_month_wkday_offset(T) ==
    IF /\ Len(T) = 5
       /\ T[1].cls = "a" /\ T[2].cls = "s" /\ T[3].cls = "a"
       /\ IsSign(T[4].cls) /\ T[5].cls = "d"
       /\ T[1].text \in DOMAIN month_map
       /\ T[3].text \in DOMAIN weekday_map
    THEN Some(NthWeekdayOfMonth(month_map[T[1].text], weekday_map[T[3].text],
                                SignOf(T[4].cls) * DigitsToInt(T[5].text)))
    ELSE None

\* Month DD
parse_month_dd(T) ==
    IF /\ Len(T) = 3
       /\ T[1].cls = "a" /\ Len(T[1].text) >= 3 /\ Len(T[1].text) <= 24
       /\ T[2].cls = "s"
       /\ T[3].cls = "d" /\ Len(T[3].text) <= 2
       /\ T[1].text \in DOMAIN month_map
    THEN Some(FixedDate(month_map[T[1].text], DigitsToInt(T[3].text)))
    ELSE None

\* * Weekday+N, * Weekday-N
parse_wildcard_wkday(T) ==
    IF /\ Len(T) = 5
       /\ T[1].cls = "*" /\ T[2].cls = "s" /\ T[3].cls = "a"
       /\ IsSign(T[4].cls) /\ T[5].cls = "d"
       /\ T[3].text \in DOMAIN weekday_map
    THEN Some(NthWeekdayEveryMonth(weekday_map[T[3].text],
                                   SignOf(T[4].cls) * DigitsToInt(T[5].text)))
    ELSE None

\* * DD
parse_wildcard_day(T) ==
    IF /\ Len(T) = 3
       /\ T[1].cls = "*" /\ T[2].cls = "s"
       /\ T[3].cls = "d" /\ Len(T[3].text) <= 2
    THEN Some(WildcardDay(DigitsToInt(T[3].text)))
    ELSE None

\* WkdayOrdinal Month
parse_wkday_ord_month(T) ==
    IF /\ Len(T) = 3
       /\ T[1].cls = "a" /\ T[2].cls = "s" /\ T[3].cls = "a"
       /\ SplitOrdinal(T[1].text) # None
       /\ The(SplitOrdinal(T[1].text))[1] \in DOMAIN weekday_map
       /\ T[3].text \in DOMAIN month_map
    THEN LET wo == The(SplitOrdinal(T[1].text))
         IN  Some(NthWeekdayOfMonth(month_map[T[3].text], weekday_map[wo[1]],
                                    ORDINAL_MAP[wo[2]]))
    ELSE None

\* DD Month
parse_dd_month(T) ==
    IF /\ Len(T) = 3
       /\ T[1].cls = "d" /\ Len(T[1].text) <= 2
       /\ T[2].cls = "s" /\ T[3].cls = "a"
       /\ T[3].text \in DOMAIN month_map
    THEN Some(FixedDate(month_map[T[3].text], DigitsToInt(T[1].text)))
    ELSE None

\* _parse_format_patterns, on the stripped lower-cased string s
parse_format_patterns(s) ==
    LET T == Tokens(s)
    IN  IF Contains(s, "/") \/ (Contains(s, "-") /\ IsDigit(s[1]))
        THEN OrElse(parse_full_date(T),
             OrElse(parse_mm_wkday_offset(T),
             OrElse(parse_ordinal_weekday(T),
             OrElse(parse_month_slash_dd(T),
                    parse_mm_dd(T)))))
        ELSE OrElse(parse_month_wkday_offset(T),
             OrElse(parse_month_dd(T),
             OrElse(parse_wildcard_wkday(T),
             OrElse(parse_wildcard_day(T),
             OrElse(parse_wkday_ord_month(T),
                    parse_dd_month(T))))))

\* parse with the weekday and month names looked up before the Anchor Table
parse_NamesFirst(date_str, exprs) ==
    LET s == lower(strip(date_str))
        T == Tokens(s)
        offsetForm == /\ Len(T) = 3
                      /\ T[1].cls = "a" /\ IsSign(T[2].cls) /\ T[3].cls = "d"
    IN  IF offsetForm /\ T[1].text \in DOMAIN exprs
        THEN Some(OffsetDateExpr(exprs[T[1].text],
                                 SignOf(T[2].cls) * DigitsToInt(T[3].text)))
        ELSE IF s \in DOMAIN weekday_map THEN Some(EveryWeekday(weekday_map[s]))
        ELSE IF s \in DOMAIN month_map THEN Some(FixedDate(month_map[s], 1))
        ELSE IF s \in DOMAIN exprs THEN Some(exprs[s])
        ELSE parse_format_patterns(s)

\* DateStringParser.parse with the Anchor Table exprs
parse(date_str, exprs) ==
    LET s == lower(strip(date_str))
        T == Tokens(s)
        offsetForm == /\ Len(T) = 3
                      /\ T[1].cls = "a" /\ IsSign(T[2].cls) /\ T[3].cls = "d"
    IN  IF offsetForm /\ T[1].text \in DOMAIN exprs
        THEN Some(OffsetDateExpr(exprs[T[1].text],
                                 SignOf(T[2].cls) * DigitsToInt(T[3].text)))
        ELSE IF s \in DOMAIN exprs THEN Some(exprs[s])
        ELSE IF s \in DOMAIN weekday_map THEN Some(EveryWeekday(weekday_map[s]))
        ELSE IF s \in DOMAIN month_map THEN Some(FixedDate(month_map[s], 1))
        ELSE parse_format_patterns(s)

(***************************************************************************)
(* The Anchor Table.  The anchors of a year come from dateutil, lunardate  *)
(* and astronomy-engine; here they are the values those libraries give for *)
(* the years the model runs in (UTC calendar dates).                       *)
(***************************************************************************)
MD(y, md) == Date(y, md[1], md[2])

\* dateutil.easter.easter(year)  (western)
easter(y) ==
    LET a == y % 19
        b == y \div 100
        c == y % 100
        d == b \div 4
        e == b % 4
        f == (b + 8) \div 25
        g == (b - f + 1) \div 3
        h == (19 * a + b - d - g + 15) % 30
        i == c \div 4
        k == c % 4
        l == (32 + 2 * e + 2 * i - h - k) % 7
        m == (a + 11 * h + 22 * l) \div 451
        n == h + l - 7 * m + 114
    IN  Date(y, n \div 31, (n % 31) + 1)

\* dateutil.easter.easter(year, method=EASTER_ORTHODOX), as a Gregorian date
easter_orthodox(y) ==
    LET a == y % 4
        b == y % 7
        c == y % 19
        d == (19 * c + 15) % 30
        e == (2 * a + 4 * b - d + 34) % 7
        n == d + e + 114
        julian == Date(y, n \div 31, (n % 31) + 1)
    IN  fromordinal(toordinal(julian) + 13)

\* LunarDate(year, 1, 1).toSolarDate()
chinese_new_year(y) ==
    CASE y = 2025 -> Date(2025, 1, 29)
      [] y = 2026 -> Date(2026, 2, 17)
      [] y = 2027 -> Date(2027, 2, 6)
      [] y = 2028 -> Date(2028, 1, 26)

\* get_seasons(year): <<marequinox, junsolstice, sepequinox, decsolstice>>
get_seasons(y) ==
    CASE y = 2025 -> <<Date(2025, 3, 20), Date(2025, 6, 21), Date(2025, 9, 22), Date(2025, 12, 21)>>
      [] y = 2026 -> <<Date(2026, 3, 20), Date(2026, 6, 21), Date(2026, 9, 23), Date(2026, 12, 21)>>
      [] y = 2027 -> <<Date(2027, 3, 20), Date(2027, 6, 21), Date(2027, 9, 23), Date(2027, 12, 22)>>
      [] y = 2028 -> <<Date(2028, 3, 20), Date(2028, 6, 20), Date(2028, 9, 22), Date(2028, 12, 21)>>

\* get_moon_phases(year)["newmoon"]
new_moons(y) ==
    CASE y = 2025 -> {MD(y, md) : md \in {<<1, 29>>, <<2, 28>>, <<3, 29>>, <<4, 27>>,
                        <<5, 27>>, <<6, 25>>, <<7, 24>>, <<8, 23>>, <<9, 21>>,
                        <<10, 21>>, <<11, 20>>, <<12, 20>>}}
      [] y = 2026 -> {MD(y, md) : md \in {<<1, 18>>, <<2, 17>>, <<3, 19>>, <<4, 17>>,
                        <<5, 16>>, <<6, 15>>, <<7, 14>>, <<8, 12>>, <<9, 11>>,
                        <<10, 10>>, <<11, 9>>, <<12, 9>>}}
      [] y = 2027 -> {MD(y, md) : md \in {<<1, 7>>, <<2, 6>>, <<3, 8>>, <<4, 6>>,
                        <<5, 6>>, <<6, 4>>, <<7, 4>>, <<8, 2>>, <<8, 31>>,
                        <<9, 30>>, <<10, 29>>, <<11, 28>>, <<12, 27>>}}
      [] y = 2028 -> {MD(y, md) : md \in {<<1, 26>>, <<2, 25>>, <<3, 26>>, <<4, 24>>,
                        <<5, 24>>, <<6, 22>>, <<7, 22>>, <<8, 20>>, <<9, 18>>,
                        <<10, 18>>, <<11, 16>>, <<12, 16>>}}

\* get_moon_phases(year)["fullmoon"]
full_moons(y) ==
    CASE y = 2025 -> {MD(y, md) : md \in {<<1, 13>>, <<2, 12>>, <<3, 14>>, <<4, 13>>,
                        <<5, 12>>, <<6, 11>>, <<7, 10>>, <<8, 9>>, <<9, 7>>,
                        <<10, 7>>, <<11, 5>>, <<12, 4>>}}
      [] y = 2026 -> {MD(y, md) : md \in {<<1, 3>>, <<2, 1>>, <<3, 3>>, <<4, 2>>,
                        <<5, 1>>, <<5, 31>>, <<6, 29>>, <<7, 29>>, <<8, 28>>,
                        <<9, 26>>, <<10, 26>>, <<11, 24>>, <<12, 24>>}}
      [] y = 2027 -> {MD(y, md) : md \in {<<1, 22>>, <<2, 20>>, <<3, 22>>, <<4, 20>>,
                        <<5, 20>>, <<6, 19>>, <<7, 18>>, <<8, 17>>, <<9, 15>>,
                        <<10, 15>>, <<11, 14>>, <<12, 13>>}}
      [] y = 2028 -> {MD(y, md) : md \in {<<1, 12>>, <<2, 10>>, <<3, 11>>, <<4, 9>>,
                        <<5, 8>>, <<6, 7>>, <<7, 6>>, <<8, 5>>, <<9, 3>>,
                        <<10, 3>>, <<11, 2>>, <<12, 2>>, <<12, 31>>}}

\* the table before the alias lines are read
builtin_date_exprs(y) ==
    (Chars("easter") :> SpecialDate(easter(y)))
    @@ (Chars("paskha") :> SpecialDate(easter_orthodox(y)))
    @@ (Chars("chinesenewyear") :> SpecialDate(chinese_new_year(y)))
    @@ (Chars("marequinox") :> SpecialDate(get_seasons(y)[1]))
    @@ (Chars("junsolstice") :> SpecialDate(get_seasons(y)[2]))
    @@ (Chars("sepequinox") :> SpecialDate(get_seasons(y)[3]))
    @@ (Chars("decsolstice") :> SpecialDate(get_seasons(y)[4]))
    @@ (Chars("newmoon") :> RecurringDate(new_moons(y)))
    @@ (Chars("fullmoon") :> RecurringDate(full_moons(y)))

\* d[k] = v on a dict
DictSet(d, k, v) == [x \in DOMAIN d \cup {k} |-> IF x = k THEN v ELSE d[x]]

\* one iteration of the alias loop of parse_special_dates
alias_line(exprs, line) ==
    IF Contains(line, "=") /\ ~Contains(line, "\t")
    THEN LET left  == lower(strip(SplitFirst(line, "=")[1]))
             right == lower(strip(SplitFirst(line, "=")[2]))
         IN  IF left \in DOMAIN exprs /\ right \notin DOMAIN exprs
             THEN DictSet(exprs, right, exprs[left])
             ELSE IF right \in DOMAIN exprs
             THEN DictSet(exprs, left, exprs[right])
             ELSE exprs
    ELSE exprs

parse_special_dates(lines, y) ==
    LET table[i \in 0..Len(lines)] ==
            IF i = 0 THEN builtin_date_exprs(y)
            ELSE alias_line(table[i - 1], lines[i])
    IN  table[Len(lines)]

(***************************************************************************)
(* The window policy.                                                      *)
(***************************************************************************)
\* the conversion shifted the wrong way
bsd_to_python_weekday_Plus(bsd_wday) == (bsd_wday + 1) % 7

\* BSD tm_wday (0=Sun..6=Sat) to Python weekday (0=Mon..6=Sun)
bsd_to_python_weekday(bsd_wday) == (bsd_wday - 1) % 7

\* the default taken whenever ahead is falsy ("if ahead" for "is not None")
get_ahead_behind_Truthy(today_, ahead_arg, behind_arg, friday_) ==
    LET wd == weekday(today_)
        ahead_days == IF ahead_arg # None /\ The(ahead_arg) # 0 THEN The(ahead_arg)
                      ELSE IF wd = friday_ THEN 3 ELSE 1
    IN  <<ahead_days, behind_arg>>

\* <<ahead_days, behind_days>>; ahead_arg is None or Some(n)
get_ahead_behind(today_, ahead_arg, behind_arg, friday_) ==
    LET wd == weekday(today_)
        ahead_days == IF ahead_arg # None THEN The(ahead_arg)
                      ELSE IF wd = friday_ THEN 3 ELSE 1
    IN  <<ahead_days, behind_arg>>

\* the window without its last day (range(-behind, ahead))
get_dates_to_check_Exclusive(today_, ahead_, behind_) ==
    {DatePlus(today_, offset).date : offset \in (-behind_)..(ahead_ - 1)}

\* {today + timedelta(days=offset) for offset in range(-behind, ahead + 1)}
get_dates_to_check(today_, ahead_, behind_) ==
    {DatePlus(today_, offset).date : offset \in (-behind_)..ahead_}

\* get_ahead_behind(today) with the defaults of its signature
get_ahead_behind_defaults(today_) == get_ahead_behind(today_, None, 0, 4)

\* build_parser: the defaults of -F and -B
DefaultF == 5
DefaultB == 0

(***************************************************************************)
(* Events and the matcher.                                                 *)
(***************************************************************************)
\* Event(date, description, variable); __post_init__ strips the description
Event(dt, desc, var) == [date |-> dt, description |-> strip(desc), variable |-> var]
NoEvent == [date |-> NoDate, description |-> <<>>, variable |-> FALSE]

\* re.search(r"\[(\d{4})\]", s): the start of the leftmost match, 0 if none
AgeMatch(s) ==
    LET hits == {i \in 1..(Len(s) - 5) :
                    /\ s[i] = "[" /\ s[i + 5] = "]"
                    /\ \A k \in 1..4 : IsDigit(s[i + k])}
    IN  IF hits = {} THEN 0 ELSE CHOOSE i \in hits : \A k \in hits : i <= k

\* s.replace(pat, rep) for a pattern that cannot overlap itself
Replace(s, pat, rep) ==
    LET n   == Len(pat)
        occ == {i \in 1..(Len(s) - n + 1) : SubSeq(s, i, i + n - 1) = pat}
        piece(i) == IF i \in occ THEN rep
                    ELSE IF \E j \in occ : j < i /\ i < j + n THEN <<>>
                    ELSE <<s[i]>>
        out[i \in 0..Len(s)] == IF i = 0 THEN <<>> ELSE out[i - 1] \o piece(i)
    IN  out[Len(s)]

\* only the first occurrence replaced (str.replace with count=1)
replace_age_FirstOnly(description, check_date) ==
    LET p == AgeMatch(description)
    IN  IF p = 0 THEN description
        ELSE SubSeq(description, 1, p - 1)
             \o IntToStr(check_date.year - DigitsToInt(SubSeq(description, p + 1, p + 4)))
             \o SubSeq(description, p + 6, Len(description))

replace_age_in_description(description, check_date) ==
    LET p == AgeMatch(description)
    IN  IF p = 0 THEN description
        ELSE LET year_val == DigitsToInt(SubSeq(description, p + 1, p + 4))
                 age == check_date.year - year_val
             IN  Replace(description, SubSeq(description, p, p + 5), IntToStr(age))

\* the loop "for year in years: resolved |= expr.resolve(year)", r[y] what
\* expr.resolve(y) gave
UnionOrRaise(r) ==
    IF \E y \in DOMAIN r : r[y].exc # "none"
    THEN Exc(r[CHOOSE y \in DOMAIN r : r[y].exc # "none"].exc)
    ELSE Ret(UNION {r[y].dates : y \in DOMAIN r})

ResolveYears(e, years) == UnionOrRaise([y \in years |-> resolve(e, y)])

NoMatch == [kind |-> "None", event |-> NoEvent, exc |-> "none"]

\* get_matching_event, once check_date = min(matching) is known
EventOn(check_date, event_description, var) ==
    [kind |-> "Event",
     event |-> Event(check_date,
                     replace_age_in_description(event_description, check_date),
                     var),
     exc |-> "none"]

\* get_matching_event, once the expression is resolved to r
MatchResolved(r, dates, event_description, var) ==
    IF r.exc # "none" THEN [kind |-> "Raise", event |-> NoEvent, exc |-> r.exc]
    ELSE IF r.dates \cap dates # {}
    THEN EventOn(MinDate(r.dates \cap dates), event_description, var)
    ELSE NoMatch

\* get_matching_event with "variable=expr.variable", the marker forgotten
MatchParsed_NoMarker(e, dates, event_description, explicit_variable) ==
    IF e = None THEN NoMatch
    ELSE MatchResolved(ResolveYears(The(e), {d.year : d \in dates}), dates,
                       event_description, variable(The(e)))

\* get_matching_event, once the date field is parsed to e
MatchParsed(e, dates, event_description, explicit_variable) ==
    IF e = None THEN NoMatch
    ELSE MatchResolved(ResolveYears(The(e), {d.year : d \in dates}), dates,
                       event_description, explicit_variable \/ variable(The(e)))

\* get_matching_event: [kind, event, exc], kind "None", "Event" or "Raise"
get_matching_event(line, dates, exprs) ==
    IF strip(line) = <<>> \/ ~Contains(line, "\t")
    THEN NoMatch
    ELSE LET date_field == SplitFirst(line, "\t")[1]
             event_description == SplitFirst(line, "\t")[2]
             stripped == rstrip(date_field)
             explicit_variable == Len(stripped) > 0 /\ stripped[Len(stripped)] = "*"
             date_str == IF explicit_variable
                         THEN SubSeq(stripped, 1, Len(stripped) - 1)
                         ELSE date_field
         IN  MatchParsed(parse(date_str, exprs), dates, event_description,
                         explicit_variable)

(***************************************************************************)
(* Reading, sorting and printing.                                          *)
(***************************************************************************)
\* the join without the newline between the record and the continuation
join_continuation_lines_NoNewline(lines) ==
    LET result[i \in 0..Len(lines)] ==
            IF i = 0 THEN <<>>
            ELSE LET prev == result[i - 1]
                     line == lines[i]
                 IN  IF Len(line) > 0 /\ line[1] = "\t" /\ Len(prev) > 0
                     THEN [prev EXCEPT ![Len(prev)] = @ \o line]
                     ELSE Append(prev, line)
    IN  result[Len(lines)]

\* the join with the continuation put in front of its record
join_continuation_lines_Prepend(lines) ==
    LET result[i \in 0..Len(lines)] ==
            IF i = 0 THEN <<>>
            ELSE LET prev == result[i - 1]
                     line == lines[i]
                 IN  IF Len(line) > 0 /\ line[1] = "\t" /\ Len(prev) > 0
                     THEN [prev EXCEPT ![Len(prev)] = line \o <<"\n">> \o @]
                     ELSE Append(prev, line)
    IN  result[Len(lines)]

\* join_continuation_lines
join_continuation_lines(lines) ==
    LET result[i \in 0..Len(lines)] ==
            IF i = 0 THEN <<>>
            ELSE LET prev == result[i - 1]
                     line == lines[i]
                 IN  IF Len(line) > 0 /\ line[1] = "\t" /\ Len(prev) > 0
                     THEN [prev EXCEPT ![Len(prev)] = @ \o <<"\n">> \o line]
                     ELSE Append(prev, line)
    IN  result[Len(lines)]

\* a sort on the date that is not stable: equal dates come out reversed
sorted_TiesReversed(events) ==
    LET n == Len(events)
        rank(i) == Cardinality({j \in 1..n : DateLt(events[j].date, events[i].date)})
                   + Cardinality({j \in i..n : events[j].date = events[i].date})
    IN  [k \in 1..n |-> events[CHOOSE i \in 1..n : rank(i) = k]]

\* sorted(events): Event.__lt__ compares the dates only, the sort is stable
sorted(events) ==
    LET n == Len(events)
        rank(i) == Cardinality({j \in 1..n : DateLt(events[j].date, events[i].date)})
                   + Cardinality({j \in 1..i : events[j].date = events[i].date})
    IN  [k \in 1..n |-> events[CHOOSE i \in 1..n : rank(i) = k]]

MonthAbbrCap == <<"Jan", "Feb", "Mar", "Apr", "May", "Jun", "Jul", "Aug", "Sep",
                  "Oct", "Nov", "Dec">>
DayAbbrCap == <<"Mon", "Tue", "Wed", "Thu", "Fri", "Sat", "Sun">>

\* Event.__str__
Event_str(ev) ==
    Chars(MonthAbbrCap[ev.date.month]) \o <<" ">>
    \o (IF ev.date.day < 10 THEN <<" ">> ELSE <<>>) \o IntToStr(ev.date.day)
    \o (IF ev.variable THEN <<"*">> ELSE <<>>)
    \o <<"\t">> \o ev.description

format_event(ev, with_weekday) ==
    IF with_weekday
    THEN Chars(DayAbbrCap[weekday(ev.date) + 1]) \o <<" ">> \o Event_str(ev)
    ELSE Event_str(ev)

(***************************************************************************)
(* The run of cli().  The inputs are the command line and the calendar     *)
(* file: every line of LinePool as a file of its own and a few longer      *)
(* files under a few windows, and one file under every window policy.      *)
(***************************************************************************)
LinePool ==
    {"", "   ", "07/04 no tab", "garbage\tNot a date",
     "07/04\tIndependence Day", "* 15\tRent", "* 1\tFirst of month",
     "Easter-2\tGood Friday", "Easter-46\tAsh Wednesday", "Easter\tEaster",
     "12/SunLast+5\tSpill", "DecSolstice+11\tSpill", "DecSolstice\tWinter",
     "12/30+2\tNo such form", "Dec/WedLast+2\tSpill", "Dec/WedLast\tLast Wed",
     "13/Mon+1\tBad month", "00/SunFirst\tBad month", "02/30\tNo such day",
     "Jan Fri+200000000\tHuge", "Easter+999999999\tHuge",
     "Feb Mon+5\tFifth Monday", "Feb Wed+3\tThird Wed",
     "Friday\tTGIF!", "01/01\tBorn [2000] [2000] [1999]", "01/01*\tStar",
     "12/31 \tNYE", "FullMoon+1\tAfter full moon", "NewMoon\tNew moon",
     "May Sun+2\tMother's Day", "2026/2/17\tRosh", "2026-02-18*\tISO",
     "2025/2/17\tLast year", "2026/2/30\tNo such full date",
     "* Fri+1\tFirst Friday", "* Fri+0\tZeroth",
     "01 Jan\tDD Month", "jan/01\tMonth/DD", "January\tBare month",
     "Jan 1\tMonth DD", "FriFirst Jan\tOrd", "01/Fri+1\tMM/Wkday",
     "01/FriFirst\tMM/Ord", "x+1\tUnknown anchor", "Fri+1\tNo month",
     "02/18\tBorn [1990]", "01/01\tNot yet [2030] [2030]",
     "01/01\t[99] [12345] [2000]x[2000[1999]]", "01/01**\tTwo stars", "Easter*\tStarred anchor", "01/01 * \tStar and blank"}

LongFiles ==
    {<<"01/02\tNew Year recovery", "Friday\tTGIF!", "Jan Fri+1\tFirst Friday">>,
     <<"02/18\tLou dies", "\tof his music", "02/18\tSimple", "02/17\tDay",
       "\tBopper">>,
     <<"pesach = Easter", "Pesach-2\tAlias", "13/Mon+1\tBad", "04/03\tAfter bad">>,
     <<"01/01\tA", "12/31\tB", "01/01\tC", "Friday\tD", "12/30\tE">>,
     <<"\tLeading", "02/18", "\tDate alone", "02/18\tA", "\t02/17\tB", "\tC  ">>}

WindowFile ==
    <<"07/09\tThursday event", "07/10\tFriday event", "07/11\tSaturday event",
      "07/12\tSunday event">>

FileOf(strs) == [i \in 1..Len(strs) |-> Chars(strs[i])]

Files == {FileOf(<<l>>) : l \in LinePool} \cup {FileOf(f) : f \in LongFiles}

TodayPool ==
    {Date(2026, 2, 18), Date(2026, 4, 3), Date(2026, 5, 10), Date(2026, 12, 30),
     Date(2026, 12, 31), Date(2027, 1, 1), Date(2027, 1, 2)}

WeekPool == {Date(2026, 7, d) : d \in 6..12}

\* every line under a few windows
InitLines ==
    /\ today \in TodayPool
    /\ argA \in {None, Some(0), Some(MaxAhead), Some(MaxAhead + 4)}
    /\ argW = None
    /\ argB \in {DefaultB, MaxBehind}
    /\ argF = DefaultF
    /\ argw = FALSE
    /\ file_lines \in Files

\* one file under every window policy
InitWindows ==
    /\ today \in WeekPool
    /\ argA \in {None} \cup {Some(n) : n \in (-1)..MaxAhead}
    /\ argW \in {None, Some(5)}
    /\ argB \in (-1)..MaxBehind
    /\ argF \in 0..6
    /\ argw \in BOOLEAN
    /\ file_lines = FileOf(WindowFile)

ResolveIdle == expr = NoEvent /\ year = 0 /\ resolved = Ret({})

ParseIdle == field = <<>> /\ parsed = {}

TodayIdle == clock = NoDate /\ t_arg = <<>> /\ t_date = <<>>

CppIdle ==
    /\ files = <<>> /\ include_dirs = <<>> /\ included_files = {}
    /\ returned = <<>> /\ output = <<>>

Init ==
    /\ pc = "start"
    /\ TodayIdle /\ CppIdle
    /\ InitLines \/ InitWindows
    /\ calendar_lines = <<>>
    /\ friday = 0 /\ ahead = 0 /\ behind = 0 /\ dates_to_check = {}
    /\ date_exprs = <<>>
    /\ idx = 0
    /\ last = [kind |-> "None", event |-> NoEvent, exc |-> "none"]
    /\ matching_events = <<>>
    /\ printed = <<>>
    /\ ResolveIdle
    /\ ParseIdle

\* cli: calendar_lines = join_continuation_lines(processor.process_file(...))
ReadCalendar ==
    /\ pc = "start"
    /\ calendar_lines' = join_continuation_lines(file_lines)
    /\ pc' = "window"
    /\ UNCHANGED <<today, argA, argW, argB, argF, argw, file_lines, friday, ahead,
                   behind, dates_to_check, date_exprs, idx, last, matching_events,
                   printed>>
    /\ UNCHANGED resolveVars
    /\ UNCHANGED parseVars
    /\ UNCHANGED todayVars
    /\ UNCHANGED cppVars

\* cli: friday, ahead_value, get_ahead_behind, get_dates_to_check
ComputeWindow ==
    /\ pc = "window"
    /\ LET friday_ == bsd_to_python_weekday(argF)
           ahead_value == IF argW # None THEN argW ELSE argA
           ab == get_ahead_behind(today, ahead_value, argB, friday_)
       IN  /\ friday' = friday_
           /\ ahead' = ab[1]
           /\ behind' = ab[2]
           /\ dates_to_check' = get_dates_to_check(today, ab[1], ab[2])
    /\ pc' = "special"
    /\ UNCHANGED <<today, argA, argW, argB, argF, argw, file_lines, calendar_lines,
                   date_exprs, idx, last, matching_events, printed>>
    /\ UNCHANGED resolveVars
    /\ UNCHANGED parseVars
    /\ UNCHANGED todayVars
    /\ UNCHANGED cppVars

\* cli: date_exprs = parse_special_dates(...); DateStringParser(date_exprs)
BuildParser ==
    /\ pc = "special"
    /\ date_exprs' = parse_special_dates(calendar_lines, today.year)
    /\ idx' = 1
    /\ pc' = "match"
    /\ UNCHANGED <<today, argA, argW, argB, argF, argw, file_lines, calendar_lines,
                   friday, ahead, behind, dates_to_check, last, matching_events,
                   printed>>
    /\ UNCHANGED resolveVars
    /\ UNCHANGED parseVars
    /\ UNCHANGED todayVars
    /\ UNCHANGED cppVars

\* MatchLine with the date of an event taken out of dates_to_check
MatchLine_ConsumesDate ==
    /\ pc = "match"
    /\ idx <= Len(calendar_lines)
    /\ \E r \in {get_matching_event(calendar_lines[idx], dates_to_check, date_exprs)} :
           /\ last' = r
           /\ matching_events' = IF r.kind = "Event"
                                 THEN Append(matching_events, r.event)
                                 ELSE matching_events
           /\ dates_to_check' = IF r.kind = "Event"
                                THEN dates_to_check \ {r.event.date}
                                ELSE dates_to_check
           /\ pc' = IF r.kind = "Raise" THEN "crashed" ELSE "match"
    /\ idx' = idx + 1
    /\ UNCHANGED <<today, argA, argW, argB, argF, argw, file_lines, calendar_lines,
                   friday, ahead, behind, date_exprs, printed>>
    /\ UNCHANGED resolveVars
    /\ UNCHANGED parseVars
    /\ UNCHANGED todayVars
    /\ UNCHANGED cppVars

\* cli: one iteration of the list comprehension over calendar_lines; an
\* exception of get_matching_event is caught nowhere and ends the run
MatchLine ==
    /\ pc = "match"
    /\ idx <= Len(calendar_lines)
    /\ \E r \in {get_matching_event(calendar_lines[idx], dates_to_check, date_exprs)} :
           /\ last' = r
           /\ matching_events' = IF r.kind = "Event"
                                 THEN Append(matching_events, r.event)
                                 ELSE matching_events
           /\ pc' = IF r.kind = "Raise" THEN "crashed" ELSE "match"
    /\ idx' = idx + 1
    /\ UNCHANGED <<today, argA, argW, argB, argF, argw, file_lines, calendar_lines,
                   friday, ahead, behind, dates_to_check, date_exprs, printed>>
    /\ UNCHANGED resolveVars
    /\ UNCHANGED parseVars
    /\ UNCHANGED todayVars
    /\ UNCHANGED cppVars

\* cli: for event in sorted(matching_events): print(format_event(...))
PrintEvents ==
    /\ pc = "match"
    /\ idx > Len(calendar_lines)
    /\ printed' = [k \in 1..Len(matching_events) |->
                      format_event(sorted(matching_events)[k], argw)]
    /\ pc' = "done"
    /\ UNCHANGED <<today, argA, argW, argB, argF, argw, file_lines, calendar_lines,
                   friday, ahead, behind, dates_to_check, date_exprs, idx, last,
                   matching_events>>
    /\ UNCHANGED resolveVars
    /\ UNCHANGED parseVars
    /\ UNCHANGED todayVars
    /\ UNCHANGED cppVars

Next == ReadCalendar \/ ComputeWindow \/ BuildParser \/ MatchLine \/ PrintEvents

Spec == Init /\ [][Next]_vars

(***************************************************************************)
(* Resolution harness: an expression and a year are drawn, resolve is      *)
(* applied once.                                                           *)
(***************************************************************************)
Easter2026 == Date(2026, 4, 5)

NthPool ==
    {NthWeekdayOfMonth(m, w, n) : m \in 1..12, w \in 0..6, n \in (-MaxN)..MaxN}

BasePool ==
    {SpecialDate(Easter2026),
     RecurringDate({Date(2026, 1, 3), Date(2026, 12, 24)}),
     FixedDate(12, 31), FixedDate(1, 1), FixedDate(2, 29), FixedDate(4, 31),
     FullDate(2026, 2, 17),
     NthWeekdayOfMonth(12, 6, -1), NthWeekdayOfMonth(2, 0, 5),
     NthWeekdayOfMonth(13, 0, 1),
     NthWeekdayEveryMonth(4, 3)}
    \cup {WildcardDay(d) : d \in {1, 29, 31}}
    \cup {EveryWeekday(w) : w \in {0, 4}}

OffsetPool == {OffsetDateExpr(b, d) : b \in BasePool, d \in (-MaxOffset)..MaxOffset}

\* expressions at the edges of what the parser can give
EdgePool ==
    {WildcardDay(d) : d \in {0, 15, 28, 30, 32, 99}}
    \cup {EveryWeekday(w) : w \in 0..6}
    \cup {NthWeekdayOfMonth(m, w, n) : m \in {1, 2, 6, 12}, w \in {0, 3, 6},
                                       n \in {-53, -52, -10, 10, 52, 53}}

ExprPool == NthPool \cup BasePool \cup OffsetPool \cup EdgePool

CliIdle ==
    /\ today = NoDate /\ argA = None /\ argW = None /\ argB = 0 /\ argF = 5
    /\ argw = FALSE
    /\ file_lines = <<>> /\ calendar_lines = <<>>
    /\ friday = 0 /\ ahead = 0 /\ behind = 0 /\ dates_to_check = {}
    /\ date_exprs = <<>> /\ idx = 0 /\ last = <<>>
    /\ matching_events = <<>> /\ printed = <<>>

InitResolve ==
    /\ pc = "call"
    /\ TodayIdle /\ CppIdle
    /\ expr \in ExprPool
    /\ year \in MinYear..MaxYear
    /\ resolved = Ret({})
    /\ CliIdle
    /\ ParseIdle

\* expr.resolve(year)
DoResolve ==
    /\ pc = "call"
    /\ resolved' = resolve(expr, year)
    /\ pc' = "returned"
    /\ UNCHANGED <<expr, year>>
    /\ UNCHANGED cliVars
    /\ UNCHANGED parseVars
    /\ UNCHANGED todayVars
    /\ UNCHANGED cppVars

NextResolve == DoResolve

SpecResolve == InitResolve /\ [][NextResolve]_vars

(***************************************************************************)
(* Parse harness: a date field and an Anchor Table are drawn, and          *)
(* DateStringParser(date_exprs).parse(field) is applied.                   *)
(***************************************************************************)
FieldPool ==
    {"", "garbage", "easter", "Easter", " Easter-2 ", "fullmoon+1", "paskha",
     "newmoon-3", "decsolstice+11", "x+1", "pesach", "pesach-2", "xmas",
     "friday", "Fri", "fri+1", "friday+1", "sunday", "may", "May", "may+1",
     "january", "jan", "june", "jan-1",
     "2026/2/17", "2026-02-18", "2026-2/17", "2025/02/30", "26/2/17",
     "03/Sun-1", "03/Sun+2", "3/sunday+5", "13/mon+1", "03/sun", "03/foo+1",
     "10/satfourth-2", "Oct/SatFourth-2", "Oct/SatFourth", "oct/satfourth+0",
     "01/frifirst", "12/sunlast+5", "12/sunlast", "5/monsecond", "5/tuethird",
     "7/wedfifth-1", "foo/satfourth", "10/foofourth", "10/last", "10/fourth-2",
     "jan/01", "dec/25", "foo/25", "07/04", "7/4", "12/30+2", "1/2/3", "15-jan",
     "jan fri+1", "may sun+2", "May Sun-1", "foo sun+2", "jan  fri+1",
     "jan 1", "january 15", "ja 15", "foo 15",
     "* fri+1", "* fri-1", "* foo+1", "* 15", "*  1", "*15",
     "frifirst jan", "sunlast december", "satfourth foo", "first jan",
     "01 jan", "15 june", "15 foo", "jan 1 2", "easter 2"}

AliasFiles ==
    {<<>>,
     <<"pesach = Easter">>,
     <<"friday = easter", "may = Paskha", "FullMoon = xmas", "sunlast = newmoon",
       "easter-2 = paskha">>}

InitParse ==
    /\ pc = "parse"
    /\ TodayIdle /\ CppIdle
    /\ \E f \in FieldPool : field = Chars(f)
    /\ \E a \in AliasFiles : date_exprs = parse_special_dates(FileOf(a), 2026)
    /\ parsed = None
    /\ today = NoDate /\ argA = None /\ argW = None /\ argB = 0 /\ argF = 5
    /\ argw = FALSE
    /\ file_lines = <<>> /\ calendar_lines = <<>>
    /\ friday = 0 /\ ahead = 0 /\ behind = 0 /\ dates_to_check = {}
    /\ idx = 0 /\ last = <<>>
    /\ matching_events = <<>> /\ printed = <<>>
    /\ ResolveIdle

\* parser.parse(field)
DoParse ==
    /\ pc = "parse"
    /\ parsed' = parse(field, date_exprs)
    /\ pc' = "parsed"
    /\ UNCHANGED field
    /\ UNCHANGED cliVars
    /\ UNCHANGED resolveVars
    /\ UNCHANGED todayVars
    /\ UNCHANGED cppVars

NextParse == DoParse

SpecParse == InitParse /\ [][NextParse]_vars

(***************************************************************************)
(* Alias harness: the loop of parse_special_dates over the lines of a      *)
(* calendar file, one line at a step, starting from the built-in table.    *)
(***************************************************************************)
AliasLinePool ==
    {"pesach = Easter", "easter = paskha", "x = easter", "x = paskha",
     "Easter = x", "foo = bar", "NewMoon = fullmoon", " X=PESACH ",
     "07/04\tIndependence Day", "x = easter\tnot an alias", "y = x"}

AliasSeqs ==
    UNION {[1..n -> AliasLinePool] : n \in 1..MaxAliasLines}

InitAlias ==
    /\ pc = "alias"
    /\ TodayIdle /\ CppIdle
    /\ \E f \in AliasSeqs : calendar_lines = FileOf(f)
    /\ date_exprs = builtin_date_exprs(2026)
    /\ idx = 1
    /\ today = NoDate /\ argA = None /\ argW = None /\ argB = 0 /\ argF = 5
    /\ argw = FALSE
    /\ file_lines = <<>>
    /\ friday = 0 /\ ahead = 0 /\ behind = 0 /\ dates_to_check = {}
    /\ last = <<>>
    /\ matching_events = <<>> /\ printed = <<>>
    /\ ResolveIdle
    /\ ParseIdle

\* parse_special_dates: one iteration of "for line in calendar_lines"
AliasStep ==
    /\ pc = "alias"
    /\ idx <= Len(calendar_lines)
    /\ date_exprs' = alias_line(date_exprs, calendar_lines[idx])
    /\ idx' = idx + 1
    /\ UNCHANGED <<pc, today, argA, argW, argB, argF, argw, file_lines,
                   calendar_lines, friday, ahead, behind, dates_to_check, last,
                   matching_events, printed>>
    /\ UNCHANGED resolveVars
    /\ UNCHANGED parseVars
    /\ UNCHANGED todayVars
    /\ UNCHANGED cppVars

NextAlias == AliasStep

SpecAlias == InitAlias /\ [][NextAlias]_vars

(***************************************************************************)
(* SimpleCPP.  A text is a string with its line ends; a path is a string   *)
(* "dir/name", already resolved.                                           *)
(***************************************************************************)
\* the two characters of s at i are a then b
PairAt(s, i, a, b) == i >= 1 /\ i + 1 <= Len(s) /\ s[i] = a /\ s[i + 1] = b

\* re.sub(r"/\*.*?\*/", "", code, flags=re.DOTALL), from position i on
RECURSIVE BlockFrom(_, _)
BlockFrom(code, i) ==
    LET n == Len(code)
        closes(p) == {j \in (p + 2)..(n - 1) : PairAt(code, j, "*", "/")}
        opens == {p \in i..n : PairAt(code, p, "/", "*") /\ closes(p) # {}}
    IN  IF opens = {} THEN SubSeq(code, i, n)
        ELSE LET p == CHOOSE q \in opens : \A k \in opens : q <= k
                 c == CHOOSE j \in closes(p) : \A k \in closes(p) : j <= k
             IN  SubSeq(code, i, p - 1) \o BlockFrom(code, c + 2)

\* re.sub(r"(?:^|\s)//.*", "", code), from position i on: "^" is the start
\* of the text only and "." stops at a newline
RECURSIVE LineFrom(_, _)
LineFrom(code, i) ==
    LET n == Len(code)
        eol(p) == CHOOSE j \in p..(n + 1) :
                      /\ j = n + 1 \/ code[j] = "\n"
                      /\ \A k \in p..(j - 1) : code[k] # "\n"
        marks == {p \in i..n : (p = 1 /\ PairAt(code, 1, "/", "/"))
                                \/ (IsSpace(code[p]) /\ PairAt(code, p + 1, "/", "/"))}
    IN  IF marks = {} THEN SubSeq(code, i, n)
        ELSE LET p == CHOOSE q \in marks : \A k \in marks : q <= k
                 body == IF p = 1 /\ PairAt(code, 1, "/", "/") THEN 3 ELSE p + 3
             IN  SubSeq(code, i, p - 1) \o LineFrom(code, eol(body))

\* path.read_text(encoding="utf-8"): \r\n and \r are read as \n
read_text(data) ==
    IF ~Contains(data, "\r") THEN data
    ELSE LET kept == {i \in 1..Len(data) : ~PairAt(data, i, "\r", "\n")}
             at(k) == CHOOSE i \in kept : Cardinality({j \in kept : j < i}) = k - 1
         IN  [k \in 1..Cardinality(kept) |->
                 IF data[at(k)] = "\r" THEN "\n" ELSE data[at(k)]]

\* remove_comments: the block comments, then the line comments
remove_comments(code) == LineFrom(BlockFrom(code, 1), 1)

\* str.splitlines() for the line ends \n, \r\n, \r and \f
splitlines(text) ==
    LET n == Len(text)
        IsEnd(c) == c \in {"\n", "\r", "\f"}
        ends == {i \in 1..n : IsEnd(text[i]) /\ ~PairAt(text, i, "\r", "\n")}
        starts == {1} \cup {i + 1 : i \in ends}
        first(i) == CHOOSE j \in i..(n + 1) :
                        /\ j = n + 1 \/ IsEnd(text[j])
                        /\ \A k \in i..(j - 1) : ~IsEnd(text[k])
        begin(k) == CHOOSE i \in starts : Cardinality({j \in starts : j < i}) = k - 1
        count == Cardinality({i \in starts : i <= n})
    IN  [k \in 1..count |-> SubSeq(text, begin(k), first(begin(k)) - 1)]

\* abs_path.parent
ParentDir(path) ==
    LET cuts == {i \in 1..Len(path) : path[i] = "/"}
    IN  IF cuts = {} THEN <<>>
        ELSE SubSeq(path, 1, (CHOOSE i \in cuts : \A k \in cuts : k <= i) - 1)

\* base_dir / name
JoinPath(base_dir, name) == base_dir \o <<"/">> \o name

\* stripped.startswith(prefix)
startswith(s, prefix) ==
    Len(s) >= Len(prefix) /\ SubSeq(s, 1, Len(prefix)) = prefix

\* re.match(r'#include\s+[<"]([^">]+)[">]', stripped) for a line that starts
\* with #include: None, or Some(group 1)
IncludeMatch(stripped) ==
    LET n == Len(stripped)
        open == {i \in 10..n : /\ stripped[i] \in {"<", "\""}
                               /\ \A k \in 9..(i - 1) : IsSpace(stripped[k])}
    IN  IF open = {} THEN None
        ELSE LET o == CHOOSE i \in open : TRUE
                 close == {j \in (o + 1)..n : stripped[j] \in {"\"", ">"}}
             IN  IF close = {} THEN None
                 ELSE LET c == CHOOSE j \in close : \A k \in close : j <= k
                      IN  IF c = o + 1 THEN None
                          ELSE Some(SubSeq(stripped, o + 1, c - 1))

\* resolve_include with include_dirs searched before the including file's
\* directory
resolve_include_DirsFirst(name, look_first, dirs, fs) ==
    LET all == dirs \o <<look_first>>
        hits == {i \in 1..Len(all) : JoinPath(all[i], name) \in DOMAIN fs}
    IN  IF hits = {} THEN None
        ELSE Some(JoinPath(all[CHOOSE i \in hits : \A k \in hits : i <= k], name))

\* SimpleCPP.resolve_include: None, or Some(path); fs is the file system
resolve_include(name, look_first, dirs, fs) ==
    LET all == <<look_first>> \o dirs
        hits == {i \in 1..Len(all) : JoinPath(all[i], name) \in DOMAIN fs}
    IN  IF hits = {} THEN None
        ELSE Some(JoinPath(all[CHOOSE i \in hits : \A k \in hits : i <= k], name))

\* SimpleCPP.process_file(path) with self.included_files = inc:
\* [exc, lines, inc], inc the included_files afterwards
RECURSIVE process_file(_, _, _, _)
RECURSIVE process_lines(_, _, _, _, _, _, _)
RECURSIVE after_include(_, _, _, _, _, _, _)

\* the loop "for line in ...splitlines()" from line i on, lines so far acc
process_lines(ls, i, acc, inc, parent, dirs, fs) ==
    IF i > Len(ls) THEN [exc |-> "none", lines |-> acc, inc |-> inc]
    ELSE IF startswith(strip(ls[i]), Chars("#include"))
    THEN IF IncludeMatch(strip(ls[i])) = None
         THEN [exc |-> "SyntaxError", lines |-> <<>>, inc |-> inc]
         ELSE IF resolve_include(The(IncludeMatch(strip(ls[i]))), parent, dirs, fs) = None
         THEN process_lines(ls, i + 1, acc, inc, parent, dirs, fs)
         ELSE after_include(
                  process_file(The(resolve_include(The(IncludeMatch(strip(ls[i]))),
                                                   parent, dirs, fs)),
                               inc, dirs, fs),
                  ls, i, acc, parent, dirs, fs)
    ELSE IF startswith(strip(ls[i]), <<"#">>)
    THEN process_lines(ls, i + 1, acc, inc, parent, dirs, fs)
    ELSE process_lines(ls, i + 1, Append(acc, ls[i]), inc, parent, dirs, fs)

\* lines.extend(self.process_file(include_file)), r what the call gave
after_include(r, ls, i, acc, parent, dirs, fs) ==
    IF r.exc # "none" THEN [exc |-> r.exc, lines |-> <<>>, inc |-> r.inc]
    ELSE process_lines(ls, i + 1, acc \o r.lines, r.inc, parent, dirs, fs)

\* process_file that gives the plain lines of a file it has already included
process_file_Reread(path, inc, dirs, fs) ==
    IF path \in inc
    THEN [exc |-> "none",
          lines |-> SelectSeq(splitlines(remove_comments(read_text(fs[path]))),
                              LAMBDA l : ~startswith(strip(l), <<"#">>)),
          inc |-> inc]
    ELSE process_lines(splitlines(remove_comments(read_text(fs[path]))), 1, <<>>,
                       inc \cup {path}, ParentDir(path), dirs, fs)

process_file(path, inc, dirs, fs) ==
    IF path \in inc THEN [exc |-> "none", lines |-> <<>>, inc |-> inc]
    ELSE process_lines(splitlines(remove_comments(read_text(fs[path]))), 1, <<>>,
                       inc \cup {path}, ParentDir(path), dirs, fs)

(***************************************************************************)
(* The include harness: one SimpleCPP instance over a small file system,   *)
(* process_file called on any of its files, a few times.                   *)
(***************************************************************************)
TextFiles(f) == [p \in {Chars(q) : q \in DOMAIN f} |->
                    Chars(f[CHOOSE q \in DOMAIN f : Chars(q) = p])]

\* a file found next to the including file and in the include directories
LookupFiles ==
    [q \in {"h/main", "h/a", "u/a", "u/b", "v/b", "v/c", "v/a"} |->
        CASE q = "h/main" -> "m1\n#include \"a\"\n# remark\nm2\n#include <b>\nm3\n"
          [] q = "h/a"    -> "ha1\nha2"
          [] q = "u/a"    -> "ua1"
          [] q = "u/b"    -> "ub1\n#include \"c\"\n  #include   <a> again\nub2"
          [] q = "v/b"    -> "vb1"
          [] q = "v/c"    -> "vc1\n#include <a>"
          [] q = "v/a"    -> "va1"]

\* a self-include, a cycle and a diamond
CycleFiles ==
    [q \in {"h/main", "h/x", "h/y", "h/z"} |->
        CASE q = "h/main" -> "#include \"x\"\n#include \"y\"\nm1\n#include \"main\"\nm2"
          [] q = "h/x"    -> "x1\n#include \"z\"\n#include \"y\"\nx2"
          [] q = "h/y"    -> "y1\n#include \"z\"\n#include \"x\""
          [] q = "h/z"    -> "z1\n#include \"z\"\nz2"]

\* comments, a missing target, other directives and a malformed directive
CommentFiles ==
    [q \in {"h/main", "h/a", "h/bad", "u/e"} |->
        CASE q = "h/main" -> "m1 /* block\n#include \"a\"\n*/ m2\n// line\nm3 // tail\n#include \"nope\"\n#define X\n\tcont\n #include <a\"\n"
          [] q = "h/a"    -> "a1\r\n\na2 http://x\n"
          [] q = "h/bad"  -> "b1\n#include \"a\"\n#include bad\nb2"
          [] q = "u/e"    -> "//only\n#include<a>\ne1 /* open\n"]

FsPool == {TextFiles(LookupFiles), TextFiles(CycleFiles), TextFiles(CommentFiles)}

DirsPool == {<<>>, <<"u", "v">>, <<"v", "u">>}

InitCpp ==
    /\ pc = "cpp"
    /\ files \in FsPool
    /\ \E d \in DirsPool : include_dirs = FileOf(d)
    /\ included_files = {}
    /\ returned = [exc |-> "none", lines |-> <<>>, path |-> <<>>]
    /\ output = <<>>
    /\ CliIdle /\ ResolveIdle /\ ParseIdle /\ TodayIdle

\* processor.process_file(path)
ProcessFile ==
    /\ pc = "cpp"
    /\ Len(output) < MaxCalls
    /\ \E path \in DOMAIN files :
         \E r \in {process_file(path, included_files, include_dirs, files)} :
            /\ returned' = [exc |-> r.exc, lines |-> r.lines, path |-> path]
            /\ included_files' = r.inc
            /\ output' = Append(output, r.lines)
    /\ UNCHANGED <<pc, files, include_dirs>>
    /\ UNCHANGED cliVars
    /\ UNCHANGED resolveVars
    /\ UNCHANGED parseVars
    /\ UNCHANGED todayVars

NextCpp == ProcessFile

SpecCpp == InitCpp /\ [][NextCpp]_vars

(***************************************************************************)
(* The -t harness: parse_today_arg on one argument, on one day.            *)
(***************************************************************************)
\* datetime.date(y, m, d) as parse_today_arg returns or raises it
MakeDate(y, m, d) ==
    IF ValidDate(y, m, d)
    THEN [exc |-> "none", msg |-> "", date |-> Date(y, m, d)]
    ELSE [exc |-> "ValueError", msg |-> "out of range", date |-> NoDate]

\* re.fullmatch(r"\d{n}", s)
DigitString(s, n) == Len(s) = n /\ \A i \in 1..n : IsDigit(s[i])

\* parse_today_arg with the six-digit year below 100 always in the 2000s
parse_today_arg_NoCentury(t_str, now) ==
    LET s == strip(t_str)
    IN  IF DigitString(s, 2)
        THEN MakeDate(now.year, now.month, DigitsToInt(s))
        ELSE IF DigitString(s, 4)
        THEN MakeDate(now.year, DigitsToInt(SubSeq(s, 1, 2)), DigitsToInt(SubSeq(s, 3, 4)))
        ELSE IF DigitString(s, 6)
        THEN MakeDate(20 * 100 + DigitsToInt(SubSeq(s, 1, 2)),
                      DigitsToInt(SubSeq(s, 3, 4)), DigitsToInt(SubSeq(s, 5, 6)))
        ELSE IF DigitString(s, 8)
        THEN MakeDate(DigitsToInt(SubSeq(s, 1, 4)), DigitsToInt(SubSeq(s, 5, 6)),
                      DigitsToInt(SubSeq(s, 7, 8)))
        ELSE [exc |-> "ArgumentTypeError", msg |-> "Invalid -t date format",
              date |-> NoDate]

\* parse_today_arg(t_str) when datetime.date.today() is now
parse_today_arg(t_str, now) ==
    LET s == strip(t_str)
    IN  IF DigitString(s, 2)
        THEN MakeDate(now.year, now.month, DigitsToInt(s))
        ELSE IF DigitString(s, 4)
        THEN MakeDate(now.year, DigitsToInt(SubSeq(s, 1, 2)), DigitsToInt(SubSeq(s, 3, 4)))
        ELSE IF DigitString(s, 6)
        THEN LET yy == DigitsToInt(SubSeq(s, 1, 2))
                 cc == IF 69 <= yy /\ yy <= 99 THEN 19 ELSE 20
             IN  MakeDate(cc * 100 + yy, DigitsToInt(SubSeq(s, 3, 4)),
                          DigitsToInt(SubSeq(s, 5, 6)))
        ELSE IF DigitString(s, 8)
        THEN MakeDate(DigitsToInt(SubSeq(s, 1, 4)), DigitsToInt(SubSeq(s, 5, 6)),
                      DigitsToInt(SubSeq(s, 7, 8)))
        ELSE [exc |-> "ArgumentTypeError", msg |-> "Invalid -t date format",
              date |-> NoDate]

TArgPool ==
    {"15", "31", "00", " 07 ", "0704", "0230", "1301", "0229",
     "260704", "991231", "680101", "690101", "000229", "010229", "691301",
     " 260704 ", "20260216", "19990101", "00000101", "99991231", "20261232",
     "", "1", "123", "12345", "1234567", "123456789", "abc", "2607o4",
     "26-07-04", "16.02", "4.7.2026", "5.6", "01.01.2000", "1.1.99",
     "  16.02  ", "16.", "16.02.2026.99", "ab.cd", "1.13.2026", "32.1.2026",
     "1.1.", "31.4", "29.2"}

ClockPool == {Date(2026, 2, 18), Date(2026, 7, 9), Date(2027, 1, 1), Date(2028, 2, 29)}

InitToday ==
    /\ pc = "t_call"
    /\ clock \in ClockPool
    /\ \E t \in TArgPool : t_arg = Chars(t)
    /\ t_date = <<>>
    /\ CliIdle /\ ResolveIdle /\ ParseIdle /\ CppIdle

\* args.today = parse_today_arg(t_arg)
DoParseToday ==
    /\ pc = "t_call"
    /\ t_date' = parse_today_arg(t_arg, clock)
    /\ pc' = "t_returned"
    /\ UNCHANGED <<clock, t_arg>>
    /\ UNCHANGED cliVars
    /\ UNCHANGED resolveVars
    /\ UNCHANGED parseVars
    /\ UNCHANGED cppVars

NextToday == DoParseToday

SpecToday == InitToday /\ [][NextToday]_vars

(***************************************************************************)
(* Reference calendar used to state the properties: weekday by Zeller's    *)
(* congruence, and day-by-day stepping.                                    *)
(***************************************************************************)
RefWeekday(dt) ==
    LET m == IF dt.month < 3 THEN dt.month + 12 ELSE dt.month
        y == IF dt.month < 3 THEN dt.year - 1 ELSE dt.year
        K == y % 100
        J == y \div 100
        h == (dt.day + ((13 * (m + 1)) \div 5) + K + (K \div 4) + (J \div 4) + 5 * J) % 7
    IN  (h + 5) % 7

RefMonthLength(y, m) ==
    CHOOSE n \in 28..31 :
        /\ (m \in {1, 3, 5, 7, 8, 10, 12}) => n = 31
        /\ (m \in {4, 6, 9, 11}) => n = 30
        /\ (m = 2) => n = (IF (y % 4 = 0 /\ y % 100 # 0) \/ y % 400 = 0 THEN 29 ELSE 28)

\* dt moved k days along the calendar, a month at a time
RECURSIVE StepDays(_, _)
StepDays(dt, k) ==
    LET len == RefMonthLength(dt.year, dt.month)
    IN  IF dt.day + k >= 1 /\ dt.day + k <= len
        THEN Date(dt.year, dt.month, dt.day + k)
        ELSE IF k > 0
        THEN StepDays(IF dt.month < 12 THEN Date(dt.year, dt.month + 1, 1)
                                       ELSE Date(dt.year + 1, 1, 1),
                      k - (len - dt.day + 1))
        ELSE StepDays(IF dt.month > 1
                      THEN Date(dt.year, dt.month - 1,
                                RefMonthLength(dt.year, dt.month - 1))
                      ELSE Date(dt.year - 1, 12, 31),
                      k + dt.day)

\* the days of month m of year y that fall on weekday w
WeekdayDays(y, m, w) ==
    {d \in 1..RefMonthLength(y, m) : RefWeekday(Date(y, m, d)) = w}

(***************************************************************************)
(* Properties.                                                             *)
(***************************************************************************)

\* C4: for every year, month 1..12, weekday 0..6 and n in 1..4,
\* NthWeekdayOfMonth(month, weekday, n).resolve(year) is a single date of that
\* month and year, with day-of-month in [(n-1)*7+1, n*7] and the requested
\* weekday.
C4_NthWeekdayInNthWeek ==
    (/\ pc = "returned"
     /\ expr.kind = "NthWeekdayOfMonth"
     /\ expr.month \in 1..12 /\ expr.weekday \in 0..6 /\ expr.n \in 1..4)
    => /\ resolved.exc = "none"
       /\ \E d \in resolved.dates :
            /\ resolved.dates = {d}
            /\ d.year = year /\ d.month = expr.month
            /\ d.day >= (expr.n - 1) * 7 + 1 /\ d.day <= expr.n * 7
            /\ RefWeekday(d) = expr.weekday

\* Thanksgiving 2026: the 4th Thursday of November is November 26
C4_Witness ==
    /\ pc = "returned"
    /\ expr = NthWeekdayOfMonth(11, 3, 4) /\ year = 2026
    /\ resolved = Ret({Date(2026, 11, 26)})

\* C5: for every year, month 1..12 and weekday 0..6,
\* NthWeekdayOfMonth(month, weekday, -1).resolve(year) is a single date within
\* the last 7 days of that month (day > month length - 7) with the requested
\* weekday.
C5_LastWeekdayInLastWeek ==
    (/\ pc = "returned"
     /\ expr.kind = "NthWeekdayOfMonth"
     /\ expr.month \in 1..12 /\ expr.weekday \in 0..6 /\ expr.n = -1)
    => /\ resolved.exc = "none"
       /\ \E d \in resolved.dates :
            /\ resolved.dates = {d}
            /\ d.year = year /\ d.month = expr.month
            /\ d.day > RefMonthLength(year, expr.month) - 7
            /\ d.day <= RefMonthLength(year, expr.month)
            /\ RefWeekday(d) = expr.weekday

\* Memorial Day 2026: the last Monday of May is May 25
C5_Witness ==
    /\ pc = "returned"
    /\ expr = NthWeekdayOfMonth(5, 0, -1) /\ year = 2026
    /\ resolved = Ret({Date(2026, 5, 25)})

\* C7: OffsetDateExpr(base, d).resolve(year) is base.resolve(year) with every
\* date moved d days along the calendar, across month and year boundaries too
\* (Easter 2026 = April 5: Easter-2 = April 3, Easter-46 = February 18), and
\* d = 0 gives base.resolve(year); it raises exactly what base.resolve raises.
C7_OffsetShiftsBase ==
    (pc = "returned" /\ expr.kind = "OffsetDateExpr")
    => LET b == resolve(expr.base, year)
       IN  /\ resolved.exc = b.exc
           /\ resolved.dates = {StepDays(x, expr.offset) : x \in b.dates}
           /\ expr.offset = 0 => resolved = b
           /\ expr = OffsetDateExpr(SpecialDate(Easter2026), -2)
                 => resolved.dates = {Date(2026, 4, 3)}
           /\ expr = OffsetDateExpr(SpecialDate(Easter2026), -46)
                 => resolved.dates = {Date(2026, 2, 18)}

\* December 31 plus one day is January 1 of the next year
C7_Witness ==
    /\ pc = "returned"
    /\ expr = OffsetDateExpr(FixedDate(12, 31), 1) /\ year = 2026
    /\ resolved = Ret({Date(2027, 1, 1)})

\* C24: WildcardDay(day).resolve(year) is exactly the dates (year, m, day) of
\* the months m that have such a day: 12 dates for day 1..28, 11 or 12 for
\* day 29 (leap year), 11 for day 30, 7 for day 31, none for day 0 or a day
\* above 31; so a "* 15" line gives an event for a single-day window exactly
\* when the day is a 15th.
C24_WildcardDayMonths ==
    (pc = "returned" /\ expr.kind = "WildcardDay")
    => /\ resolved =
            Ret({Date(year, m, expr.day) :
                    m \in {k \in 1..12 : /\ expr.day >= 1
                                         /\ expr.day <= RefMonthLength(year, k)}})
       /\ expr.day \in 1..28 => Cardinality(resolved.dates) = 12
       /\ expr.day = 29 =>
            Cardinality(resolved.dates) = (IF RefMonthLength(year, 2) = 29 THEN 12 ELSE 11)
       /\ expr.day = 30 => Cardinality(resolved.dates) = 11
       /\ expr.day = 31 => Cardinality(resolved.dates) = 7
       /\ (expr.day = 0 \/ expr.day > 31) => resolved.dates = {}
       /\ expr.day = 15 =>
            /\ parse(Chars("* 15"), <<>>) = Some(expr)
            /\ \A m \in 1..12 : \A d \in 14..16 :
                  (get_matching_event(Chars("* 15\tRent"), {Date(year, m, d)},
                                      <<>>).kind = "Event") <=> (d = 15)

\* the 31st of 2026: the seven long months
C24_Witness ==
    /\ pc = "returned"
    /\ expr = WildcardDay(31) /\ year = 2026
    /\ resolved = Ret({Date(2026, m, 31) : m \in {1, 3, 5, 7, 8, 10, 12}})

\* C25: EveryWeekday(weekday).resolve(year) is exactly the dates of the year
\* that fall on the weekday: 52 or 53 dates, each of the year and on the
\* weekday, none missing, neighbours 7 days apart; so a bare "Friday" line
\* gives an event for a single-day window exactly when the day is a Friday.
C25_EveryWeekdayOfYear ==
    (pc = "returned" /\ expr.kind = "EveryWeekday")
    => /\ resolved.exc = "none"
       /\ resolved.dates =
            {Date(year, m, d) : m \in 1..12, d \in 1..31} \cap
            {x \in [year : {year}, month : 1..12, day : 1..31] :
                /\ x.day <= RefMonthLength(year, x.month)
                /\ RefWeekday(x) = expr.weekday}
       /\ Cardinality(resolved.dates) \in {52, 53}
       /\ \A x \in resolved.dates :
             \/ StepDays(x, 7) \in resolved.dates
             \/ StepDays(x, 7).year = year + 1
       /\ expr.weekday = 4 =>
            /\ parse(Chars("Friday"), <<>>) = Some(expr)
            /\ \A d \in 1..RefMonthLength(year, 7) :
                  (get_matching_event(Chars("Friday\tTGIF!"), {Date(year, 7, d)},
                                      <<>>).kind = "Event")
                      <=> (RefWeekday(Date(year, 7, d)) = 4)

\* the Fridays of 2027 start on January 1 and there are 53 of them
C25_Witness ==
    /\ pc = "returned"
    /\ expr = EveryWeekday(4) /\ year = 2027
    /\ Date(2027, 1, 1) \in resolved.dates
    /\ Date(2027, 12, 31) \in resolved.dates
    /\ Cardinality(resolved.dates) = 53

\* C27: for every n, month 1..12, weekday and year,
\* NthWeekdayOfMonth(month, weekday, n).resolve(year) is empty or a single
\* date of that month and year, the |n|-th of the weekday counted from the
\* start of the month (n > 0) or from its end (n < 0); it is empty for n = 0
\* and for |n| >= 6, and is never a date of another year.
C27_NthInMonthOrEmpty ==
    (/\ pc = "returned"
     /\ expr.kind = "NthWeekdayOfMonth"
     /\ expr.month \in 1..12 /\ expr.weekday \in 0..6)
    => LET days == WeekdayDays(year, expr.month, expr.weekday)
       IN  /\ resolved.exc = "none"
           /\ Cardinality(resolved.dates) <= 1
           /\ \A d \in resolved.dates :
                /\ d.year = year /\ d.month = expr.month /\ d.day \in days
                /\ expr.n > 0 => Cardinality({x \in days : x <= d.day}) = expr.n
                /\ expr.n < 0 => Cardinality({x \in days : x >= d.day}) = -expr.n
           /\ (expr.n = 0 \/ expr.n >= 6 \/ expr.n <= -6) => resolved.dates = {}

(***************************************************************************)
(* Properties of the run of cli().                                         *)
(***************************************************************************)
\* the window has been computed
WindowKnown == pc \in {"special", "match", "done", "crashed"}

\* get_matching_event has been called for calendar_lines[idx - 1]
LineMatched == pc \in {"match", "done", "crashed"} /\ idx >= 2

MatchedLine == calendar_lines[idx - 1]

\* the date field of a line that has a tab, without the variability marker
DateField(line) ==
    LET f == SplitFirst(line, "\t")[1]
        r == rstrip(f)
    IN  IF Len(r) > 0 /\ r[Len(r)] = "*" THEN SubSeq(r, 1, Len(r) - 1) ELSE f

DateLe(a, b) == a = b \/ DateLt(a, b)

\* C1: get_matching_event returns None when the line is blank, has no tab,
\* has an unparseable date field, or when the dates the expression resolves
\* to over the years of dates_to_check do not meet dates_to_check; otherwise
\* it returns exactly one Event, on the minimum date of the intersection.
C1_OneEventOnMinimumDate ==
    LineMatched =>
        LET line  == MatchedLine
            blank == strip(line) = <<>>
            notab == ~Contains(line, "\t")
            e     == IF blank \/ notab THEN None ELSE parse(DateField(line), date_exprs)
            years == {d.year : d \in dates_to_check}
            inter == IF e = None THEN {}
                     ELSE (UNION {resolve(The(e), y).dates : y \in years})
                              \cap dates_to_check
        IN  IF blank \/ notab \/ e = None \/ inter = {}
            THEN last.kind = "None"
            ELSE /\ last.kind = "Event"
                 /\ last.event.date \in dates_to_check
                 /\ \A d \in inter : DateLe(last.event.date, d)

\* the same statement for the calls that return
C1_WhenReturned == (LineMatched /\ last.kind # "Raise") => C1_OneEventOnMinimumDate

\* the years touching the window and the years next to them
AdjacentYears ==
    LET years == {d.year : d \in dates_to_check}
    IN  years \cup {y - 1 : y \in years} \cup {y + 1 : y \in years}

\* the occurrences of the base of an offset line in year y, moved by the offset
ShiftedOccurrences(line, y) ==
    LET e == The(parse(DateField(line), parse_special_dates(calendar_lines, y)))
        b == resolve(e.base, y)
    IN  {StepDays(x, e.offset) : x \in b.dates}

\* C2: for a line whose date field is an Offset expression, if the base's
\* occurrence in a year touching or adjacent to the window, moved by the
\* signed day count, lands in the window, the line yields an Event on such a
\* date (also from late December into a window lying in January).
C2_OffsetSpilloverNotMissed ==
    (/\ LineMatched
     /\ Contains(MatchedLine, "\t")
     /\ parse(DateField(MatchedLine), date_exprs) # None
     /\ The(parse(DateField(MatchedLine), date_exprs)).kind = "OffsetDateExpr"
     /\ The(parse(DateField(MatchedLine), date_exprs)).offset \in (-400)..400)
    => LET hits == (UNION {ShiftedOccurrences(MatchedLine, y) : y \in AdjacentYears})
                       \cap dates_to_check
       IN  hits # {} => (last.kind = "Event" /\ last.event.date \in hits)

\* the occurrences in year y of the anchor a line is keyed on
AnchorOccurrences(line, y) ==
    resolve(The(parse(DateField(line), parse_special_dates(calendar_lines, y))), y).dates

\* C28: for a line keyed on an anchor keyword or an alias of one, if an
\* occurrence of the anchor in any year the window touches lies in the
\* window, the line yields an Event on such a date, also when that year is
\* not today's year.
C28_AnchorAcrossYearBoundary ==
    (/\ LineMatched
     /\ Contains(MatchedLine, "\t")
     /\ parse(DateField(MatchedLine), date_exprs) # None
     /\ The(parse(DateField(MatchedLine), date_exprs)).kind
            \in {"SpecialDate", "RecurringDate"})
    => LET hits == (UNION {AnchorOccurrences(MatchedLine, d.year) : d \in dates_to_check})
                       \cap dates_to_check
       IN  hits # {} => (last.kind = "Event" /\ last.event.date \in hits)

\* C3: get_matching_event ends in an Event or in None and never raises, so
\* the lines after it are still processed.
C3_MatchingNeverRaises ==
    /\ last.kind \in {"Event", "None"}
    /\ pc # "crashed"

\* C8: the window is every date from today - behind to today + ahead; for
\* ahead >= 0 and behind >= 0 it contains today, is contiguous and has
\* ahead + behind + 1 elements ({today} when both are 0).
C8_WindowIsTheInterval ==
    WindowKnown =>
        LET lo == StepDays(today, -behind)
            hi == StepDays(today, ahead)
            near == {StepDays(today, k) : k \in (-(MaxBehind + 3))..(MaxAhead + 7)}
        IN  /\ dates_to_check = {d \in near : DateLe(lo, d) /\ DateLe(d, hi)}
            /\ (ahead >= 0 /\ behind >= 0) =>
                  /\ today \in dates_to_check
                  /\ Cardinality(dates_to_check) = ahead + behind + 1
                  /\ \A d \in dates_to_check : d = lo \/ StepDays(d, -1) \in dates_to_check
            /\ (ahead = 0 /\ behind = 0) => dates_to_check = {today}

C8_Witness ==
    /\ pc = "special"
    /\ today = Date(2026, 7, 10) /\ ahead = 3 /\ behind = 2
    /\ dates_to_check = {Date(2026, 7, d) : d \in 8..13}

\* C9: without an explicit ahead the look-ahead is 3 on the trigger weekday
\* and 1 on every other weekday; an explicit ahead is returned unchanged on
\* every weekday (0 and 1 included); behind is returned unchanged, default 0.
C9_AheadBehindPolicy ==
    WindowKnown =>
        LET given == IF argW # None THEN argW ELSE argA
        IN  /\ given = None => ahead = (IF RefWeekday(today) = friday THEN 3 ELSE 1)
            /\ given # None => ahead = The(given)
            /\ behind = argB
            /\ get_ahead_behind_defaults(today) =
                   <<IF RefWeekday(today) = 4 THEN 3 ELSE 1, 0>>

\* on the trigger day an explicit -A 0 stays 0
C9_Witness ==
    /\ pc = "special"
    /\ RefWeekday(today) = friday
    /\ argA = Some(0) /\ argW = None
    /\ ahead = 0 /\ behind = argB

\* the BSD number (0=Sun..6=Sat) of the weekday of a date
BsdDay(dt) == (RefWeekday(dt) + 1) % 7

\* C10: -F uses BSD day numbering: the default 3-day look-ahead is in force
\* exactly when today is BSD day args.F; bsd_to_python_weekday is the
\* bijection on 0..6 that sends a BSD day to the Python weekday of the same
\* day (-F 5, the default, is Friday; -F 4 is Thursday and not Friday).
C10_BsdFridayNumbering ==
    WindowKnown =>
        /\ (friday + 1) % 7 = argF
        /\ (argA = None /\ argW = None) =>
              /\ ahead \in {1, 3}
              /\ ahead = 3 <=> BsdDay(today) = argF
        /\ {bsd_to_python_weekday(n) : n \in 0..6} = 0..6
        /\ bsd_to_python_weekday(DefaultF) = 4
        /\ bsd_to_python_weekday(4) = 3

\* Thursday 2026-07-09 with -F 4 looks 3 days ahead
C10_Witness ==
    /\ pc = "special"
    /\ today = Date(2026, 7, 9) /\ argF = 4
    /\ argA = None /\ argW = None
    /\ ahead = 3

\* C6: NthWeekdayOfMonth(month, weekday, 5).resolve(year) is empty exactly
\* when the month has only four of that weekday, and is otherwise the single
\* fifth one (day 29..31); "Feb Mon+5" yields no event for any window inside
\* February 2026.
C6_FifthWeekday ==
    (/\ pc = "returned"
     /\ expr.kind = "NthWeekdayOfMonth"
     /\ expr.month \in 1..12 /\ expr.weekday \in 0..6 /\ expr.n = 5)
    => LET days == WeekdayDays(year, expr.month, expr.weekday)
       IN  /\ resolved.exc = "none"
           /\ resolved.dates = {} <=> Cardinality(days) = 4
           /\ \A d \in resolved.dates :
                /\ resolved.dates = {d}
                /\ d.year = year /\ d.month = expr.month
                /\ d.day \in 29..31 /\ d.day \in days
                /\ Cardinality({x \in days : x < d.day}) = 4
           /\ (expr = NthWeekdayOfMonth(2, 0, 5) /\ year = 2026) =>
                /\ resolved.dates = {}
                /\ parse(Chars("Feb Mon+5"), builtin_date_exprs(2026)) = Some(expr)
                /\ \A a \in 1..28 : \A b \in a..28 :
                      get_matching_event(Chars("Feb Mon+5\tFifth Monday"),
                                         {Date(2026, 2, d) : d \in a..b},
                                         builtin_date_exprs(2026)).kind = "None"

\* February 2026 has four Mondays
C6_Witness ==
    /\ pc = "returned"
    /\ expr = NthWeekdayOfMonth(2, 0, 5) /\ year = 2026
    /\ resolved = Ret({})

\* the date field of a line carries the variability marker
HasMarker(line) ==
    LET r == rstrip(SplitFirst(line, "\t")[1])
    IN  Len(r) > 0 /\ r[Len(r)] = "*"

\* the line with its marker taken away
Unstarred(line) == DateField(line) \o <<"\t">> \o SplitFirst(line, "\t")[2]

\* C11: the variability flag of an emitted Event is (the date field, trailing
\* whitespace stripped, ends with '*') OR (the expression is variable); the
\* one asterisk is dropped before parsing, so the marked line matches what
\* the unmarked line matches, on the same date, and is emitted as variable
\* (a field with two asterisks loses one and is then no date).
C11_VariableFlag ==
    (LineMatched /\ last.kind # "Raise" /\ Contains(MatchedLine, "\t")) =>
        LET line  == MatchedLine
            plain == get_matching_event(Unstarred(line), dates_to_check, date_exprs)
        IN  /\ last.kind = "Event" =>
                last.event.variable =
                    (HasMarker(line) \/ variable(The(parse(DateField(line), date_exprs))))
            /\ (HasMarker(line) /\ ~HasMarker(Unstarred(line))) =>
                /\ plain.kind = last.kind
                /\ plain.event.date = last.event.date
                /\ plain.event.description = last.event.description
                /\ last.kind = "Event" => last.event.variable

\* a marked fixed date was emitted: only the marker makes it variable
C11_Witness ==
    /\ LineMatched /\ last.kind = "Event"
    /\ HasMarker(MatchedLine)
    /\ ~variable(The(parse(DateField(MatchedLine), date_exprs)))
    /\ last.event.variable

\* the text after the first tab of a line
RawDescription(line) == SplitFirst(line, "\t")[2]

\* s is a bracketed 4-digit year at position i
PlaceholderAt(s, i) ==
    /\ i >= 1 /\ i + 5 <= Len(s)
    /\ s[i] = "[" /\ s[i + 5] = "]"
    /\ \A k \in 1..4 : IsDigit(s[i + k])

\* s read left to right, every occurrence of lit given as rep
Substituted(s, lit, rep) ==
    LET out[i \in 1..(Len(s) + 1)] ==
            IF i > Len(s) THEN <<>>
            ELSE IF i + Len(lit) - 1 <= Len(s) /\ SubSeq(s, i, i + Len(lit) - 1) = lit
            THEN rep \o out[i + Len(lit)]
            ELSE <<s[i]>> \o out[i + 1]
    IN  out[1]

\* the four digits of a placeholder as a number
YearOf(lit) ==
    1000 * DigitVal(lit[2]) + 100 * DigitVal(lit[3]) + 10 * DigitVal(lit[4])
    + DigitVal(lit[5])

\* C13: when the description of a matched line holds a bracketed 4-digit
\* year, every occurrence of the first such literal is given as the decimal
\* value of (year of the emitted date - YYYY), other bracketed years stay,
\* and a description without one is unchanged; 'Born [1990]' matched on a
\* 2026 date becomes 'Born 36'.
C13_AgeSubstitution ==
    (LineMatched /\ last.kind = "Event") =>
        LET raw   == RawDescription(MatchedLine)
            spots == {i \in 1..Len(raw) : PlaceholderAt(raw, i)}
        IN  /\ spots = {} => last.event.description = strip(raw)
            /\ spots # {} =>
                LET p   == CHOOSE i \in spots : \A k \in spots : i <= k
                    lit == SubSeq(raw, p, p + 5)
                    age == last.event.date.year - YearOf(lit)
                IN  last.event.description
                        = strip(Substituted(raw, lit, IntToStr(age)))
            /\ (raw = Chars("Born [1990]") /\ last.event.date.year = 2026) =>
                   last.event.description = Chars("Born 36")

\* a description with the same year twice and another year once was emitted
\* on a date of the year after today's
C13_Witness ==
    /\ LineMatched /\ last.kind = "Event"
    /\ RawDescription(MatchedLine) = Chars("Born [2000] [2000] [1999]")
    /\ last.event.date.year = today.year + 1
    /\ last.event.description = Chars("Born 27 27 [1999]")

\* 'Born [1990]' was emitted on a date of 2026
C13_BornWitness ==
    /\ LineMatched /\ last.kind = "Event"
    /\ RawDescription(MatchedLine) = Chars("Born [1990]")
    /\ last.event.description = Chars("Born 36")

Orders(n) ==
    {f \in [1..n -> 1..n] : \A i \in 1..n : \A j \in 1..n : f[i] = f[j] => i = j}

\* C14: the printed lines are the matched events in an order of
\* non-decreasing date in which events of equal date keep the order of their
\* input lines, whatever their descriptions and variability flags.
C14_PrintedInStableDateOrder ==
    pc = "done" =>
        /\ Len(printed) = Len(matching_events)
        /\ \E f \in Orders(Len(matching_events)) :
               /\ \A k \in 1..Len(printed) :
                      printed[k] = format_event(matching_events[f[k]], argw)
               /\ \A k \in 1..(Len(printed) - 1) :
                      LET a == matching_events[f[k]].date
                          b == matching_events[f[k + 1]].date
                      IN  \/ a.year < b.year
                          \/ a.year = b.year /\ a.month < b.month
                          \/ a.year = b.year /\ a.month = b.month /\ a.day < b.day
                          \/ a = b /\ f[k] < f[k + 1]

\* events were printed whose input order is not their date order, two of
\* them on the same date with different variability flags
C14_Witness ==
    /\ pc = "done"
    /\ Len(printed) >= 4
    /\ \E i \in 1..Len(matching_events) : \E j \in (i + 1)..Len(matching_events) :
           DateLt(matching_events[j].date, matching_events[i].date)
    /\ \E i \in 1..Len(matching_events) : \E j \in (i + 1)..Len(matching_events) :
           /\ matching_events[i].date = matching_events[j].date
           /\ matching_events[i].variable # matching_events[j].variable

\* the lines of the file that open a record: the first line, and every line
\* that does not start with a tab
Heads ==
    {i \in 1..Len(file_lines) :
        i = 1 \/ Len(file_lines[i]) = 0 \/ file_lines[i][1] # "\t"}

\* the k-th line that opens a record
HeadAt(k) == CHOOSE i \in Heads : Cardinality({j \in Heads : j <= i}) = k

\* the last continuation line of the record opened by line i
RecordEnd(i) ==
    CHOOSE j \in i..Len(file_lines) :
        /\ \A m \in (i + 1)..j : m \notin Heads
        /\ j = Len(file_lines) \/ j + 1 \in Heads

\* lines i..j of the file, a newline between each two
JoinedLines(i, j) ==
    LET out[m \in i..j] ==
            IF m = i THEN file_lines[i] ELSE out[m - 1] \o <<"\n">> \o file_lines[m]
    IN  out[j]

\* "\n".join(lines)
JoinNewline(lines) ==
    LET out[m \in 0..Len(lines)] ==
            IF m = 0 THEN <<>>
            ELSE IF m = 1 THEN lines[1]
            ELSE out[m - 1] \o <<"\n">> \o lines[m]
    IN  out[Len(lines)]

StartsWithTab(line) == Len(line) > 0 /\ line[1] = "\t"

\* C29: join_continuation_lines loses and reorders no text: the records
\* joined with newlines are the input lines joined with newlines; no record
\* but possibly the first starts with a tab; and there are as many records
\* as input lines that do not start with a tab, plus one when the first
\* input line starts with a tab.
C29_JoinKeepsTheText ==
    (pc # "start") =>
        /\ JoinNewline(calendar_lines) = JoinNewline(file_lines)
        /\ \A k \in 2..Len(calendar_lines) : ~StartsWithTab(calendar_lines[k])
        /\ Len(calendar_lines) =
               Cardinality({i \in 1..Len(file_lines) : ~StartsWithTab(file_lines[i])})
               + (IF Len(file_lines) > 0 /\ StartsWithTab(file_lines[1]) THEN 1 ELSE 0)

\* a file that opens with a tab line and has continuation lines was joined
C29_Witness ==
    /\ pc = "window"
    /\ StartsWithTab(file_lines[1])
    /\ StartsWithTab(calendar_lines[1])
    /\ Len(calendar_lines) + 3 <= Len(file_lines)

\* C15: every line that starts with a tab and has a line before it is
\* appended, after a newline, to the record before it; a dated line with its
\* continuation lines is one record, matched as the dated line alone is
\* matched (same outcome, same date), with the continuation text in the
\* description after the newlines; a continuation line yields no event of
\* its own.
C15_ContinuationJoin ==
    /\ pc # "start" =>
        /\ Len(calendar_lines) = Cardinality(Heads)
        /\ \A k \in 1..Len(calendar_lines) :
               calendar_lines[k] = JoinedLines(HeadAt(k), RecordEnd(HeadAt(k)))
        /\ Len(matching_events) <= Cardinality(Heads)
    /\ (LineMatched /\ last.kind # "Raise"
            /\ Contains(file_lines[HeadAt(idx - 1)], "\t")) =>
        LET h     == HeadAt(idx - 1)
            alone == get_matching_event(file_lines[h], dates_to_check, date_exprs)
            whole == RawDescription(JoinedLines(h, RecordEnd(h)))
        IN  /\ alone.kind = last.kind
            /\ alone.event.date = last.event.date
            /\ (last.kind = "Event" /\ ~Contains(whole, "[")) =>
                   last.event.description = strip(whole)

\* a dated line with two continuation lines, the first of them looking like
\* a dated line itself, gave one event
C15_Witness ==
    /\ LineMatched /\ last.kind = "Event"
    /\ RecordEnd(HeadAt(idx - 1)) = HeadAt(idx - 1) + 2
    /\ last.event.description = Chars("A\n\t02/17\tB\n\tC")
    /\ last.event.date = Date(2026, 2, 18)

\* C20: a full date resolves to its own single date whatever the query
\* year, and to the empty set when there is no such date; so a line with a
\* full date gives an event exactly when that date is in the window, on that
\* date, and none on the same month and day of another year.
C20_FullDateOwnDate ==
    (LineMatched /\ Contains(MatchedLine, "\t")) =>
        \A e \in parse(DateField(MatchedLine), date_exprs) :
            e.kind = "FullDate" =>
                LET own == IF ValidDate(e.year, e.month, e.day)
                           THEN {Date(e.year, e.month, e.day)} ELSE {}
                IN  /\ \A y \in MinYear..MaxYear : resolve(e, y) = Ret(own)
                    /\ IF own \cap dates_to_check # {}
                       THEN last.kind = "Event" /\ last.event.date \in own
                       ELSE last.kind = "None"

\* the line dated 2025/2/17 gave no event although 2026-02-17 is in the
\* window
C20_Witness ==
    /\ LineMatched
    /\ MatchedLine = Chars("2025/2/17\tLast year")
    /\ Date(2026, 2, 17) \in dates_to_check
    /\ last.kind = "None"

\* C26: matching changes nothing it reads: while the lines are matched the
\* Anchor Table is still the one built from the calendar for today's year
\* and dates_to_check is still the window computed from the arguments; so
\* the outcome for a line is what get_matching_event gives for that line on
\* the table and window as first built, whatever lines were matched before.
C26_MatchingIsPure ==
    (pc \in {"match", "done", "crashed"}) =>
        /\ date_exprs = parse_special_dates(calendar_lines, today.year)
        /\ dates_to_check = get_dates_to_check(today, ahead, behind)
        /\ LineMatched =>
              last = get_matching_event(MatchedLine,
                                        get_dates_to_check(today, ahead, behind),
                                        parse_special_dates(calendar_lines, today.year))

\* the third line of a file gave an event after an earlier line had given
\* one for the same day
C26_Witness ==
    /\ pc = "match" /\ idx = 4
    /\ last.kind = "Event"
    /\ Len(matching_events) >= 2
    /\ matching_events[1].date = last.event.date

(***************************************************************************)
(* Properties of the parser.                                               *)
(***************************************************************************)
Parsed == pc = "parsed" /\ parsed # None

\* C12: fixed month/day (a bare month name included), full date and
\* wildcard-day expressions are not variable; anchors (single and set),
\* nth-weekday-of-month, nth-weekday-every-month and every-weekday
\* expressions are variable; an Offset has the variability of its base, also
\* of a base that is not variable; so every Offset the parser produces is
\* variable.
C12_VariabilityPerVariant ==
    /\ Parsed =>
        LET e == The(parsed)
        IN  /\ e.kind \in {"FixedDate", "FullDate", "WildcardDay"} => ~variable(e)
            /\ e.kind \in {"SpecialDate", "RecurringDate", "NthWeekdayOfMonth",
                           "NthWeekdayEveryMonth", "EveryWeekday"} => variable(e)
            /\ e.kind = "OffsetDateExpr" =>
                   (variable(e) = variable(e.base) /\ variable(e))
            /\ lower(strip(field)) \in DOMAIN month_map =>
                   (e.kind = "SpecialDate" \/ ~variable(e))
    /\ pc = "parsed" =>
        \A b \in {FixedDate(7, 4), FullDate(2026, 2, 17), WildcardDay(15)} :
            /\ ~variable(OffsetDateExpr(b, 1))
            /\ ~variable(OffsetDateExpr(OffsetDateExpr(b, -2), 1))

\* an offset notation was parsed to an Offset of an nth weekday
C12_Witness ==
    /\ Parsed
    /\ The(parsed).kind = "OffsetDateExpr"
    /\ The(parsed).base.kind = "NthWeekdayOfMonth"

\* a non-empty string of letters, of digits
IsWord(w) == Len(w) > 0 /\ \A i \in 1..Len(w) : IsAlpha(w[i])
IsNumber(w) == Len(w) > 0 /\ \A i \in 1..Len(w) : IsDigit(w[i])

\* the ordinal words with their numbers
OrdinalNumbers ==
    {<<"first", 1>>, <<"second", 2>>, <<"third", 3>>, <<"fourth", 4>>,
     <<"fifth", 5>>, <<"last", -1>>}

\* the months a slash notation's left part names: one or two digits, or a
\* month name or abbreviation
SlashMonths(l) ==
    IF IsNumber(l) /\ Len(l) <= 2 THEN {DigitsToInt(l)}
    ELSE IF l \in DOMAIN month_map THEN {month_map[l]}
    ELSE {}

\* the right part r of a slash notation, cut at its first sign:
\* <<word, has a suffix, signed number of the suffix>>
SlashSuffix(r) ==
    LET ps == {i \in 1..Len(r) : IsSign(r[i])}
    IN  IF ps = {} THEN <<r, FALSE, 0>>
        ELSE LET p == CHOOSE i \in ps : \A k \in ps : i <= k
                 n == SubSeq(r, p + 1, Len(r))
             IN  IF IsNumber(n)
                 THEN <<SubSeq(r, 1, p - 1), TRUE, SignOf(r[p]) * DigitsToInt(n)>>
                 ELSE <<<<>>, TRUE, 0>>

\* what the claim says of the slash notation l/r
SlashClaim(l, r, got) ==
    LET c == SlashSuffix(r)
    IN  /\ (IsNumber(l) /\ Len(l) <= 2 /\ c[2] /\ c[1] \in DOMAIN weekday_map) =>
               got = Some(NthWeekdayOfMonth(DigitsToInt(l), weekday_map[c[1]], c[3]))
        /\ \A m \in SlashMonths(l) : \A d \in DOMAIN weekday_map :
             \A o \in OrdinalNumbers :
               c[1] = d \o Chars(o[1]) =>
                  got = Some(IF c[2]
                             THEN OffsetDateExpr(
                                      NthWeekdayOfMonth(m, weekday_map[d], o[2]), c[3])
                             ELSE NthWeekdayOfMonth(m, weekday_map[d], o[2]))

\* C18: MM/Weekday+N and MM/Weekday-N parse to the N-th such weekday of the
\* month (negative from the end; 03/Sun-1 is the last Sunday of March);
\* MM/WkdayOrdinal+-N and MonthName/WkdayOrdinal+-N parse to the ordinal
\* weekday of the month shifted by N days (first..fifth are 1..5, last is -1),
\* and without the suffix to the bare ordinal weekday of the month.
C18_SlashNotations ==
    (pc = "parsed" /\ Contains(field, "/")) =>
        /\ SlashClaim(SplitFirst(lower(strip(field)), "/")[1],
                      SplitFirst(lower(strip(field)), "/")[2], parsed)
        /\ field = Chars("03/Sun-1") =>
               parsed = Some(NthWeekdayOfMonth(3, 6, -1))
        /\ field = Chars("Oct/SatFourth") =>
               parsed = Some(NthWeekdayOfMonth(10, 5, 4))

\* Oct/SatFourth-2 was parsed to two days before the fourth Saturday of
\* October
C18_Witness ==
    /\ pc = "parsed"
    /\ field = Chars("Oct/SatFourth-2")
    /\ parsed = Some(OffsetDateExpr(NthWeekdayOfMonth(10, 5, 4), -2))

\* the first result of a sequence of optional results, None if there is none
RECURSIVE FirstSome(_)
FirstSome(rs) ==
    IF Len(rs) = 0 THEN None
    ELSE IF Head(rs) # None THEN Head(rs)
    ELSE FirstSome(Tail(rs))

\* families (5) and (6) on the runs T of the field, in the claimed order
SlashFamilies(T) ==
    FirstSome(<<parse_full_date(T), parse_mm_wkday_offset(T),
                parse_ordinal_weekday(T), parse_month_slash_dd(T), parse_mm_dd(T)>>)

PlainFamilies(T) ==
    FirstSome(<<parse_month_wkday_offset(T), parse_month_dd(T),
                parse_wildcard_wkday(T), parse_wildcard_day(T),
                parse_wkday_ord_month(T), parse_dd_month(T)>>)

\* the result of the first family, in the claimed order, that accepts the
\* trimmed lower-cased field s; c is s cut at its first sign
FirstFamily(s, c, exprs) ==
    IF c[2] /\ IsWord(c[1]) /\ c[1] \in DOMAIN exprs
    THEN Some(OffsetDateExpr(exprs[c[1]], c[3]))
    ELSE IF s \in DOMAIN exprs THEN Some(exprs[s])
    ELSE IF s \in DOMAIN weekday_map THEN Some(EveryWeekday(weekday_map[s]))
    ELSE IF s \in DOMAIN month_map THEN Some(FixedDate(month_map[s], 1))
    ELSE IF Contains(s, "/") \/ (Len(s) > 0 /\ IsDigit(s[1]) /\ Contains(s, "-"))
    THEN SlashFamilies(Tokens(s))
    ELSE PlainFamilies(Tokens(s))

\* C19: parse returns the result of the first family, in the fixed order
\* (1)..(6), that accepts the whole trimmed lower-cased field, None when no
\* family accepts; so a keyword of the Anchor Table shadows a weekday or
\* month of the same name, an offset on a known keyword is an Offset of its
\* table entry, and an offset on an unknown word is never an Offset.
C19_FamilyOrder ==
    pc = "parsed" =>
        LET s == lower(strip(field))
            c == SlashSuffix(s)
        IN  /\ parsed = FirstFamily(s, c, date_exprs)
            /\ (s \in DOMAIN date_exprs /\ ~(c[2] /\ c[1] \in DOMAIN date_exprs)) =>
                   parsed = Some(date_exprs[s])
            /\ (c[2] /\ IsWord(c[1]) /\ c[1] \notin DOMAIN date_exprs) =>
                   (parsed = None \/ The(parsed).kind # "OffsetDateExpr")

\* the alias friday = easter is in the table, and the field friday was
\* parsed to Easter, not to every Friday
C19_Witness ==
    /\ pc = "parsed"
    /\ field = Chars("friday")
    /\ Chars("friday") \in DOMAIN date_exprs
    /\ parsed = Some(date_exprs[Chars("easter")])
    /\ parsed # Some(EveryWeekday(4))

(***************************************************************************)
(* Properties of the Anchor Table.                                         *)
(***************************************************************************)
\* the line about to be processed is an alias line
IsAliasLine(line) == Contains(line, "=") /\ ~Contains(line, "\t")

AliasLeft(line) == lower(strip(SplitFirst(line, "=")[1]))
AliasRight(line) == lower(strip(SplitFirst(line, "=")[2]))

\* C16: a line changes the Anchor Table only if it is an alias line of which
\* exactly one side is a known anchor when the line is processed; with both
\* sides known, or neither, the table stays as it is, so the built-in
\* keywords keep their computed values.
C16_AliasOnlyWhenOneSideKnown ==
    [][(pc = "alias" /\ idx <= Len(calendar_lines)) =>
          LET line == calendar_lines[idx]
              one  == /\ IsAliasLine(line)
                      /\ (AliasLeft(line) \in DOMAIN date_exprs)
                             # (AliasRight(line) \in DOMAIN date_exprs)
          IN  /\ ~one => date_exprs' = date_exprs
              /\ \A k \in DOMAIN builtin_date_exprs(2026) :
                     /\ k \in DOMAIN date_exprs'
                     /\ date_exprs'[k] = builtin_date_exprs(2026)[k]
      ]_vars

\* C17: once a keyword is bound in the Anchor Table, by the built-ins or by
\* an earlier alias line, no later line binds it to another expression.
C17_FirstDefinitionWins ==
    [][\A k \in DOMAIN date_exprs :
          k \in DOMAIN date_exprs' /\ date_exprs'[k] = date_exprs[k]]_vars

(***************************************************************************)
(* Properties of the -t argument.                                          *)
(***************************************************************************)
\* y-m-d is a date of the calendar
RefDate(y, m, d) ==
    /\ y >= 1 /\ y <= 9999 /\ m >= 1 /\ m <= 12
    /\ d >= 1 /\ d <= RefMonthLength(y, m)

\* parse_today_arg returned the date y-m-d
Returned(y, m, d) == t_date.exc = "none" /\ t_date.date = Date(y, m, d)

\* C21: a six-digit yymmdd argument is the date in 19yy when 69 <= yy <= 99
\* and in 20yy otherwise (991231 is 1999-12-31, 260704 is 2026-07-04, 680101
\* is 2068-01-01); an eight-digit ccyymmdd argument is taken literally.
C21_CenturyWindow ==
    pc = "t_returned" =>
        /\ DigitString(strip(t_arg), 6) =>
               LET n  == DigitsToInt(strip(t_arg))
                   yy == n \div 10000
                   y  == IF yy >= 69 /\ yy <= 99 THEN 1900 + yy ELSE 2000 + yy
               IN  RefDate(y, (n \div 100) % 100, n % 100) =>
                       Returned(y, (n \div 100) % 100, n % 100)
        /\ DigitString(strip(t_arg), 8) =>
               LET n == DigitsToInt(strip(t_arg))
               IN  RefDate(n \div 10000, (n \div 100) % 100, n % 100) =>
                       Returned(n \div 10000, (n \div 100) % 100, n % 100)
        /\ t_arg = Chars("991231") => Returned(1999, 12, 31)
        /\ t_arg = Chars("260704") => Returned(2026, 7, 4)
        /\ t_arg = Chars("680101") => Returned(2068, 1, 1)
        /\ t_arg = Chars("690101") => Returned(1969, 1, 1)

\* 991231 was given and 1999-12-31 returned
C21_Witness ==
    /\ pc = "t_returned"
    /\ t_arg = Chars("991231")
    /\ Returned(1999, 12, 31)

\* s.split(".")
RECURSIVE DotParts(_)
DotParts(s) ==
    IF ~Contains(s, ".") THEN <<s>>
    ELSE <<SplitFirst(s, ".")[1]>> \o DotParts(SplitFirst(s, ".")[2])

\* parse_today_arg raised an error whose message has the given word
Rejected(word) ==
    /\ t_date.exc # "none"
    /\ \E i \in 1..Len(Chars(t_date.msg)) :
           /\ i + Len(Chars(word)) - 1 <= Len(Chars(t_date.msg))
           /\ SubSeq(Chars(t_date.msg), i, i + Len(Chars(word)) - 1) = Chars(word)

\* what the claim says of the dot-separated argument with the parts p
DotClaim(p) ==
    IF Len(p) > 3 THEN Rejected("Invalid")
    ELSE IF \E i \in 1..Len(p) : Len(p[i]) > 0 /\ ~IsNumber(p[i])
    THEN Rejected("Non-numeric")
    ELSE IF \E i \in 1..Len(p) : Len(p[i]) = 0 THEN t_date.exc # "none"
    ELSE IF DigitsToInt(p[2]) > 12 \/ DigitsToInt(p[1]) > 31
    THEN Rejected("Out-of-range")
    ELSE (Len(p[1]) <= 2 /\ Len(p[2]) <= 2) =>
            LET y == IF Len(p) = 3 THEN DigitsToInt(p[3]) ELSE clock.year
            IN  RefDate(y, DigitsToInt(p[2]), DigitsToInt(p[1])) =>
                    Returned(y, DigitsToInt(p[2]), DigitsToInt(p[1]))

\* C22: the dot-separated arguments dd.mm and dd.mm.year are accepted, with
\* surrounding whitespace stripped; the year is the current year when it is
\* left out and is otherwise taken as written (1.1.99 is year 99); a month
\* above 12 or a day above 31 is an Out-of-range error, a non-numeric part a
\* Non-numeric error, and more than three parts an Invalid error.
C22_DotForms ==
    (pc = "t_returned" /\ Contains(t_arg, ".")) => DotClaim(DotParts(strip(t_arg)))

(***************************************************************************)
(* Properties of SimpleCPP.                                                *)
(***************************************************************************)
\* the lines of a file as process_file reads them
FileLines(path) == splitlines(remove_comments(read_text(files[path])))

\* the first of the directories ds, in order, that has a file called name
FirstExisting(ds, name) ==
    LET hits == {i \in 1..Len(ds) : (ds[i] \o <<"/">> \o name) \in DOMAIN files}
    IN  IF hits = {} THEN None
        ELSE Some(ds[CHOOSE i \in hits : \A k \in hits : i <= k] \o <<"/">> \o name)

\* the file an include directive of the file path names, if it exists
IncludedBy(path, line) ==
    IF startswith(strip(line), Chars("#include")) /\ IncludeMatch(strip(line)) # None
    THEN FirstExisting(<<ParentDir(path)>> \o include_dirs,
                       The(IncludeMatch(strip(line))))
    ELSE None

\* the text of path with every include directive replaced by the text of
\* the file it names, to the depth d, and the other # lines left out: the
\* sequence of <<file, line>>, each file entered marked by <<file, "#">>
RECURSIVE Substituted_file(_, _)
Substituted_file(path, d) ==
    IF d = 0 THEN <<<<path, <<"#">>>>, <<path, <<"#">>>>>>
    ELSE LET ls == FileLines(path)
             piece(l) == IF IncludedBy(path, l) # None
                         THEN Substituted_file(The(IncludedBy(path, l)), d - 1)
                         ELSE IF startswith(strip(l), <<"#">>) THEN <<>>
                         ELSE <<<<path, l>>>>
             acc[i \in 0..Len(ls)] ==
                 IF i = 0 THEN <<<<path, <<"#">>>>>> ELSE acc[i - 1] \o piece(ls[i])
         IN  acc[Len(ls)]

\* the lines of a substituted text
TextOf(sub) ==
    LET keep == {i \in 1..Len(sub) : sub[i][2] # <<"#">>}
        at(k) == CHOOSE i \in keep : Cardinality({j \in keep : j < i}) = k - 1
    IN  [k \in 1..Cardinality(keep) |-> sub[at(k)][2]]

\* no file is entered twice
EachFileOnce(sub) ==
    \A i, j \in 1..Len(sub) :
        (sub[i][2] = <<"#">> /\ sub[j][2] = <<"#">> /\ sub[i][1] = sub[j][1]) => i = j

\* C23: process_file returns the file's lines with every include directive
\* replaced, in place, by the processed lines of the file it names, and the
\* other lines that start with # left out; the named file is the one in the
\* including file's directory if there is one, else the one in the first of
\* include_dirs that has it.
C23_IncludeInPlace ==
    (pc = "cpp" /\ Len(output) = 1 /\ returned.exc = "none") =>
        /\ EachFileOnce(Substituted_file(returned.path, Cardinality(DOMAIN files))) =>
               returned.lines =
                   TextOf(Substituted_file(returned.path, Cardinality(DOMAIN files)))
        /\ \A i \in 1..Len(returned.lines) :
               ~startswith(strip(returned.lines[i]), <<"#">>)
        /\ (files = TextFiles(LookupFiles) /\ returned.path = Chars("h/main")) =>
               returned.lines =
                   FileOf(IF include_dirs = FileOf(<<"u", "v">>)
                          THEN <<"m1", "ha1", "ha2", "m2", "ub1", "vc1", "va1",
                                 "ua1", "ub2", "m3">>
                          ELSE IF include_dirs = FileOf(<<"v", "u">>)
                          THEN <<"m1", "ha1", "ha2", "m2", "vb1", "m3">>
                          ELSE <<"m1", "ha1", "ha2", "m2", "m3">>)

\* the main file was expanded with its include of b found in the first
\* include directory, whose own include of a was found next to it
C23_Witness ==
    /\ pc = "cpp" /\ Len(output) = 1 /\ returned.exc = "none"
    /\ files = TextFiles(LookupFiles)
    /\ include_dirs = FileOf(<<"u", "v">>)
    /\ returned.path = Chars("h/main")
    /\ EachFileOnce(Substituted_file(returned.path, Cardinality(DOMAIN files)))
    /\ Len(returned.lines) = 10

\* the sequences of a sequence, one after the other
RECURSIVE Flatten(_)
Flatten(ss) == IF Len(ss) = 0 THEN <<>> ELSE Head(ss) \o Flatten(Tail(ss))

\* how many times the line l stands in the sequence of lines ls
Occurrences(ls, l) == Cardinality({i \in 1..Len(ls) : ls[i] = l})

\* the lines of the files ps, one file after the other
RECURSIVE AllLines(_)
AllLines(ps) ==
    IF ps = {} THEN <<>>
    ELSE FileLines(CHOOSE p \in ps : TRUE) \o AllLines(ps \ {CHOOSE p \in ps : TRUE})

\* the lines of ls that stand in it exactly once
StandingOnce(ls) == {ls[i] : i \in {k \in 1..Len(ls) : Occurrences(ls, ls[k]) = 1}}

\* the lines that stand exactly once in the whole file system
OnceInFiles == StandingOnce(AllLines(DOMAIN files))

\* C30: over any sequence of process_file calls on one SimpleCPP, with
\* self-includes, cycles and diamonds, every call returns; the path of a
\* call is in included_files afterwards and no path ever leaves it; a call
\* on a path already included returns no lines and changes nothing; and a
\* line that stands once in the files stands at most once in all that was
\* returned.
C30_ExpandedAtMostOnce ==
    [][pc = "cpp" =>
          /\ Len(output') = Len(output) + 1
          /\ included_files \subseteq included_files'
          /\ returned'.path \in included_files'
          /\ returned'.path \in included_files =>
                 (returned'.lines = <<>> /\ included_files' = included_files)
          /\ \A l \in OnceInFiles : Occurrences(Flatten(output'), l) <= 1
      ]_vars

\* the main file of the cycle was expanded, each file once, and a later
\* call on one of its files gave nothing
C30_Witness ==
    /\ pc = "cpp"
    /\ files = TextFiles(CycleFiles)
    /\ output = <<FileOf(<<"x1", "z1", "z2", "y1", "x2", "m1", "m2">>), <<>>>>
    /\ returned.path = Chars("h/z")
    /\ included_files = {Chars("h/main"), Chars("h/x"), Chars("h/y"), Chars("h/z")}

====
